---- MODULE Spec2Model ----
(***************************************************************************)
(* A model of the Cardea two-tier pipeline (georfojoanne/cardea).          *)
(*                                                                         *)
(*   Center (Oracle):  POST /api/alerts  = check_abuse_safeguards +        *)
(*                     receive_alert + process_alert_background            *)
(*                     (src/oracle/src/oracle_service.py, database.py).    *)
(*   Edge (Sentry):    Zeek notice monitor, bridge escalation, log reader. *)
(*                                                                         *)
(* Time is wall-clock seconds.  One request is one ASGI task: it runs the  *)
(* handler and, after the response is sent, the background task it         *)
(* scheduled.  A task yields at every await, so every await is an action   *)
(* boundary; the commands of one Redis pipeline execute atomically.        *)
(***************************************************************************)
EXTENDS Integers, Sequences, FiniteSets, TLC

(***************************************************************************)
(* Program constants.                                                      *)
(***************************************************************************)
DEDUPE_WINDOW_SECONDS == 60
GLOBAL_MINUTE_LIMIT == 50
\* pipe.expire(minute_key, 60)
THROTTLE_TTL_SECONDS == 60
\* strftime('%M'): the minute of the hour, 00..59
SECONDS_PER_MINUTE == 60
MINUTES_PER_HOUR == 60

(***************************************************************************)
(* Bounds of the model.                                                    *)
(***************************************************************************)
\* the clock advances in steps of TickSeconds, up to MaxTime
TickSeconds == 30
MaxTime == 100
\* requests submitted in one behaviour of Spec
MaxRequests == 2
\* concurrent request tasks
NumHandlers == 2
\* alert contents (source, alert_type, description) that may be resubmitted
NumContents == 2

Handlers == 1..NumHandlers
Tracked == 1..NumContents
\* A description that is submitted once and never again: its dedupe key is
\* written but never read a second time, so the key is not kept in the model.
Fresh == 0
Contents == Tracked \cup {Fresh}

VARIABLES
    now,        \* wall clock, seconds
    t0,         \* wall clock of the initial state
    dedupe,     \* Redis: dedupe:<md5> keys, content -> expiry time
    throttle,   \* Redis: throttle:<MM> keys, minute -> [count, exp]
    hs,         \* request tasks: handler -> local state
    alerts,     \* Alert Store: ids of the committed rows of table alerts
    nextId,     \* alerts.id sequence
    submitted,  \* number of requests submitted so far
    log,        \* history: request number -> what was submitted and answered
    admits,     \* history: minute bucket -> requests answered received:
                \* keyed, all whose handler read the clock in the bucket;
                \* within, those whose pipeline also ran in the bucket
    runCount,   \* history: alert id -> number of Background Scorer runs
    noticeLog,      \* edge: the lines of Zeek's notice.log
    last_position,  \* edge: notice lines the monitor has consumed
    monitor,        \* edge: the notice monitor task
    bridge_alerts,  \* edge: bridge_service.alerts
    local_stats,    \* edge: bridge_service.local_stats
    escTasks,       \* edge: escalations scheduled as background tasks
    posts,          \* history: the POSTs made to the center, with answers
    edgeRequests,   \* number of requests made to the bridge so far
    zeekFiles,          \* reader: log type -> the lines of the log file
    log_positions,      \* reader: log type -> byte offset remembered
    connection_cache,   \* reader: uid -> ConnectionContext
    emitted,            \* reader: the events put on packet_queue, in order
    reader,             \* reader: index in ZEEK_LOGS of the file to poll next
    lineSeq,            \* number of lines Zeek has written so far
    rot,                \* history: log type -> progress of a rotation
    dnsSeen,            \* history: the uids of the dns records processed
    evictedUids,        \* history: the uids _cleanup_cache has removed
    retry_queue,    \* suricata: SuricataLogProcessor.retry_queue
    processor,      \* suricata: the position of the log processor
    forwarded,      \* history: the events the bridge has accepted, in order
    eveCount,       \* number of alert events Suricata has written so far
    detector,       \* kitnet: the fields of the KitNETDetector
    model_file,     \* kitnet: the file at model_path
    kitnet,         \* kitnet: the service process and its last call
    kitnet_alerts,  \* history: the anomaly alerts sent to the bridge
    scored,         \* center: the results of the deterministic scorer
    computed        \* the results of the calls of pure functions, in order

vars == <<now, t0, dedupe, throttle, hs, alerts, nextId, submitted, log,
          admits, runCount, noticeLog, last_position, monitor, bridge_alerts,
          local_stats, escTasks, posts, edgeRequests, zeekFiles,
          log_positions, connection_cache, emitted, reader, lineSeq, rot,
          dnsSeen, evictedUids, retry_queue, processor, forwarded, eveCount, detector, model_file,
          kitnet, kitnet_alerts, scored, computed>>

centerVars == <<t0, dedupe, throttle, hs, alerts, nextId, submitted, log,
                admits, runCount>>
bridgeVars == <<noticeLog, last_position, monitor, bridge_alerts, local_stats,
                escTasks, posts, edgeRequests>>
readerVars == <<zeekFiles, log_positions, connection_cache, emitted, reader,
                lineSeq, rot, dnsSeen, evictedUids>>
joinVars == <<dnsSeen, evictedUids>>
suricataVars == <<retry_queue, processor, forwarded, eveCount>>
kitnetVars == <<detector, model_file, kitnet, kitnet_alerts>>
analysisVars == <<scored, computed>>
sensorVars == <<suricataVars, kitnetVars, analysisVars>>
edgeVars == <<bridgeVars, readerVars, sensorVars>>

\* ZEEK_LOGS, in polling order: the connection log and one auxiliary log
ZEEK_LOGS == <<"conn", "dns">>
LogTypes == {ZEEK_LOGS[i] : i \in DOMAIN ZEEK_LOGS}

NoRotation == [case |-> "none", new |-> 0, got |-> << >>]

Tailing == [pc |-> "tail", line |-> 0]

\* SuricataLogProcessor.__init__
SuricataInit ==
    /\ retry_queue = << >>
    /\ processor = [pc |-> "tail", retried |-> 0, hand |-> 0, cycles |-> 0,
                    evicted |-> 0, start |-> 0, before |-> << >>]
    /\ forwarded = << >>
    /\ eveCount = 0

\* the file at model_path: absent, or holding the bytes written so far
NoFile ==
    [state |-> "absent", training_samples |-> 0, feature_groups |-> << >>]

\* KitNETDetector.__init__, no model file, the service not yet started
KitnetInit ==
    /\ detector = [training_mode |-> TRUE, training_samples |-> 0,
                   autoencoders |-> 0, feature_groups |-> << >>]
    /\ model_file = NoFile
    /\ kitnet = [pc |-> "down", calls |-> 0, detects |-> 0, handled |-> "none",
                 errors |-> << >>, score |-> 0, saved_at |-> << >>,
                 phases |-> << >>, crashes |-> 0]
    /\ kitnet_alerts = << >>

SensorInit ==
    /\ SuricataInit
    /\ KitnetInit
    /\ scored = << >>
    /\ computed = << >>

\* the bridge and the log reader before any notice, alert or log line
EdgeCoreInitOf(types) ==
    /\ noticeLog = << >>
    /\ last_position = 0
    /\ monitor = Tailing
    /\ bridge_alerts = << >>
    /\ local_stats = [escalations |-> 0, anomaly_score |-> 0]
    /\ escTasks = << >>
    /\ posts = << >>
    /\ edgeRequests = 0
    /\ zeekFiles = [t \in types |-> << >>]
    /\ log_positions = [t \in types |-> 0]
    /\ connection_cache = << >>
    /\ emitted = << >>
    /\ reader = 1
    /\ lineSeq = 0
    /\ rot = [t \in types |-> NoRotation]
    /\ dnsSeen = << >>
    /\ evictedUids = {}

EdgeCoreInit == EdgeCoreInitOf(LogTypes)

\* the edge before any notice or alert
EdgeInit == EdgeCoreInit /\ SensorInit

redisVars == <<dedupe, throttle>>
dbVars == <<alerts, nextId>>
histVars == <<log, admits, runCount>>

\* prior and stored0 are history: the requests already answered, and the
\* size of the Alert Store, when the request was submitted
Idle == [pc |-> "idle", k |-> 0, content |-> Fresh, tSubmit |-> 0,
         dup |-> FALSE, count |-> 0, bucket |-> 0, straddle |-> FALSE,
         id |-> 0, found |-> FALSE, prior |-> {}, stored0 |-> 0]

(***************************************************************************)
(* check_abuse_safeguards, command by command.                             *)
(***************************************************************************)
\* minute_key = f"throttle:{datetime.now().strftime('%M')}"
MinuteKey(t) == (t \div SECONDS_PER_MINUTE) % MINUTES_PER_HOUR

\* the wall-clock minute bucket of time t
Bucket(t) == t \div SECONDS_PER_MINUTE

\* pipe.get(dedupe_key): results[0] is not None
DedupeGet(c) == c \in DOMAIN dedupe

\* pipe.incr(minute_key): the value after the increment
ThrottleIncr(m) == IF m \in DOMAIN throttle THEN throttle[m].count + 1 ELSE 1

\* pipe.expire(minute_key, 60)
ThrottleExpire(t) == t + THROTTLE_TTL_SECONDS

\* variant of the comparison: one request too early
OverLimitEarly(count) == count >= GLOBAL_MINUTE_LIMIT

\* if current_minute_count > GLOBAL_MINUTE_LIMIT
OverLimit(count) == count > GLOBAL_MINUTE_LIMIT

\* variant of the order of the statements: the key is set before the
\* counter is compared
MarksSeenBeforeLimit(dup, count) == ~dup

\* setex is reached when neither `if is_duplicate` nor
\* `if current_minute_count > GLOBAL_MINUTE_LIMIT` has returned
MarksSeen(dup, count) == ~dup /\ ~OverLimit(count)

\* redis_client.setex(dedupe_key, DEDUPE_WINDOW_SECONDS, "1")
DedupeSetex(c, t) ==
    IF c \in Tracked THEN (c :> (t + DEDUPE_WINDOW_SECONDS)) @@ dedupe
    ELSE dedupe

\* Redis drops a key once its TTL has run out.
LiveKeys(store, t) == {x \in DOMAIN store : store[x] > t}
LiveThrottle(store, t) == {x \in DOMAIN store : store[x].exp > t}

(***************************************************************************)
(* get_db: the session is closed on exit and nothing commits it, so the    *)
(* rows flushed inside it are rolled back.                                 *)
(***************************************************************************)
\* rows of a session that are durable after `async with get_db()` exits
SessionExit(rows, committed) == IF committed THEN rows ELSE {}

\* receive_alert never calls db.commit()
IngestCommits == FALSE

\* variant: a background task for every answer
SchedulesScorerAlways(status) == status \in {"received", "filtered_or_throttled"}

\* background_tasks.add_task is reached only on the received path
SchedulesScorer(status) == status = "received"

(***************************************************************************)
(* Actions of a request task.                                              *)
(***************************************************************************)
\* an alert with content c arrives and receive_alert starts: it runs up to
\* its first await, reading the clock for minute_key on the way; at most cap
\* requests.  The tasks are interchangeable: the request takes the first
\* free one.
Submit(h, c, cap) ==
    /\ hs[h].pc = "idle"
    /\ \A g \in Handlers : g < h => hs[g].pc # "idle"
    /\ submitted < cap
    /\ submitted' = submitted + 1
    /\ hs' = [hs EXCEPT ![h] = [Idle EXCEPT !.pc = "check",
                                            !.k = submitted + 1,
                                            !.content = c,
                                            !.tSubmit = now,
                                            !.prior = DOMAIN log,
                                            !.stored0 = Cardinality(alerts)]]
    /\ UNCHANGED <<now, t0, redisVars, dbVars, histVars>>
    /\ UNCHANGED edgeVars

\* a request is answered: the history records it
Answer(h, status, id) ==
    [content |-> hs[h].content, tSubmit |-> hs[h].tSubmit,
     tResp |-> now, status |-> status, id |-> id,
     prior |-> hs[h].prior, stored0 |-> hs[h].stored0,
     stored |-> Cardinality(alerts),
     dup |-> hs[h].dup, count |-> hs[h].count]

Logged(h, status, id) ==
    IF hs[h].k <= MaxRequests THEN (hs[h].k :> Answer(h, status, id)) @@ log
    ELSE log

\* async with redis_client.pipeline(transaction=True): get, incr, expire.
\* minute_key was built from the clock the handler read before the await
\* (tSubmit); Redis executes the commands, and counts the TTL, at time now.
Check(h) ==
    /\ hs[h].pc = "check"
    /\ LET m == MinuteKey(hs[h].tSubmit)
           n == ThrottleIncr(m)
       IN /\ throttle' = (m :> [count |-> n, exp |-> ThrottleExpire(now)])
                            @@ throttle
          /\ hs' = [hs EXCEPT ![h].pc = "decide",
                              ![h].dup = DedupeGet(hs[h].content),
                              ![h].count = n,
                              ![h].bucket = Bucket(hs[h].tSubmit),
                              ![h].straddle =
                                  Bucket(now) # Bucket(hs[h].tSubmit)]
    /\ UNCHANGED <<now, t0, dedupe, dbVars, submitted, histVars>>
    /\ UNCHANGED edgeVars

\* is_duplicate / over the limit: return True, the endpoint answers
\* filtered_or_throttled; otherwise setex marks the content as seen
Decide(h) ==
    /\ hs[h].pc = "decide"
    /\ IF hs[h].dup \/ OverLimit(hs[h].count)
       THEN /\ hs' = [hs EXCEPT ![h] =
                        IF SchedulesScorer("filtered_or_throttled")
                        THEN [hs[h] EXCEPT !.pc = "scorer"] ELSE Idle]
            /\ log' = Logged(h, "filtered_or_throttled", 0)
            /\ dedupe' = IF MarksSeen(hs[h].dup, hs[h].count)
                          THEN DedupeSetex(hs[h].content, now)
                          ELSE dedupe
            /\ UNCHANGED admits
       ELSE /\ dedupe' = DedupeSetex(hs[h].content, now)
            /\ hs' = [hs EXCEPT ![h].pc = "persist"]
            /\ UNCHANGED <<log, admits>>
    /\ UNCHANGED <<now, t0, throttle, dbVars, submitted, runCount>>
    /\ UNCHANGED edgeVars

\* async with get_db(): db.add(alert); flush(); refresh(alert)
Persist(h) ==
    /\ hs[h].pc = "persist"
    /\ hs' = [hs EXCEPT ![h].pc = "close", ![h].id = nextId]
    /\ nextId' = nextId + 1
    /\ UNCHANGED <<now, t0, redisVars, alerts, submitted, histVars>>
    /\ UNCHANGED edgeVars

\* the session closes; add_task; return AlertResponse(status="received")
CloseSession(h) ==
    /\ hs[h].pc = "close"
    /\ alerts' = alerts \cup SessionExit({hs[h].id}, IngestCommits)
    /\ hs' = [hs EXCEPT ![h] =
                IF SchedulesScorer("received")
                THEN [hs[h] EXCEPT !.pc = "scorer"] ELSE Idle]
    /\ log' = (IF hs[h].k <= MaxRequests
               THEN (hs[h].k :> [Answer(h, "received", hs[h].id)
                                   EXCEPT !.stored = Cardinality(alerts')])
                    @@ log
               ELSE log)
    /\ admits' = [admits EXCEPT
                    ![hs[h].bucket].keyed = @ + 1,
                    ![hs[h].bucket].within =
                        IF hs[h].straddle THEN @ ELSE @ + 1]
    /\ UNCHANGED <<now, t0, redisVars, nextId, submitted, runCount>>
    /\ UNCHANGED edgeVars

\* process_alert_background: a new session selects the alert by id;
\* `if not alert: return`
ScorerLoad(h) ==
    /\ hs[h].pc = "scorer"
    /\ runCount' = (hs[h].id :>
                      (IF hs[h].id \in DOMAIN runCount
                       THEN runCount[hs[h].id] + 1 ELSE 1)) @@ runCount
    /\ hs' = [hs EXCEPT ![h] =
                IF hs[h].id \in alerts
                THEN [hs[h] EXCEPT !.pc = "scoring", !.found = TRUE]
                ELSE Idle]
    /\ UNCHANGED <<now, t0, redisVars, dbVars, submitted, log, admits>>
    /\ UNCHANGED edgeVars

\* find_correlations; alert.threat_score = ...; flush; the session closes
ScorerUpdate(h) ==
    /\ hs[h].pc = "scoring"
    /\ hs' = [hs EXCEPT ![h] = Idle]
    /\ UNCHANGED <<now, t0, redisVars, dbVars, submitted, histVars>>
    /\ UNCHANGED edgeVars

\* the wall clock advances by d seconds; expired keys are gone
Tick(d) ==
    /\ now' = now + d
    /\ dedupe' = [c \in LiveKeys(dedupe, now') |-> dedupe[c]]
    /\ throttle' = [m \in LiveThrottle(throttle, now') |-> throttle[m]]
    /\ UNCHANGED <<t0, hs, dbVars, submitted, histVars>>
    /\ UNCHANGED edgeVars

(***************************************************************************)
(* Spec: the ingest endpoint under concurrent requests.                    *)
(***************************************************************************)
\* an idle center: empty Redis, empty Alert Store, no request in flight
CenterInit ==
    /\ now = 0
    /\ t0 = 0
    /\ dedupe = << >>
    /\ throttle = << >>
    /\ hs = [h \in Handlers |-> Idle]
    /\ alerts = {}
    /\ nextId = 1
    /\ submitted = 0
    /\ log = << >>
    /\ admits = [b \in 0..Bucket(MaxTime) |-> [keyed |-> 0, within |-> 0]]
    /\ runCount = << >>

Init == CenterInit /\ EdgeInit

Next ==
    \/ \E h \in Handlers, c \in Tracked : Submit(h, c, MaxRequests)
    \/ \E h \in Handlers : Check(h)
    \/ \E h \in Handlers : Decide(h)
    \/ \E h \in Handlers : Persist(h)
    \/ \E h \in Handlers : CloseSession(h)
    \/ \E h \in Handlers : ScorerLoad(h)
    \/ (now + TickSeconds <= MaxTime /\ Tick(TickSeconds))

Spec == Init /\ [][Next]_vars

(***************************************************************************)
(* SpecRate: the ingest endpoint close to the per-minute ceiling.  The     *)
(* initial state is the one an idle center is in after RatePrefix alerts   *)
(* with pairwise distinct descriptions were submitted one after the other  *)
(* at time 0 (SpecS4 passes through it); RateExtra more requests follow,   *)
(* distinct or duplicate, sequential or concurrent.                        *)
(***************************************************************************)
RatePrefix == GLOBAL_MINUTE_LIMIT - 2
\* requests submitted on top of the prefix in one behaviour of SpecRate
RateExtra == 4

InitRate ==
    /\ now = 0
    /\ t0 = 0
    /\ dedupe = << >>
    /\ throttle = (MinuteKey(0) :> [count |-> RatePrefix,
                                    exp |-> ThrottleExpire(0)])
    /\ hs = [h \in Handlers |-> Idle]
    /\ alerts = {}
    /\ nextId = RatePrefix + 1
    /\ submitted = RatePrefix
    /\ log = << >>
    /\ admits = [b \in 0..Bucket(MaxTime) |->
                    IF b = 0 THEN [keyed |-> RatePrefix, within |-> RatePrefix]
                    ELSE [keyed |-> 0, within |-> 0]]
    /\ runCount = [i \in 1..RatePrefix |-> 1]
    /\ EdgeInit

NextRate ==
    \/ \E h \in Handlers, c \in {Fresh, 1} :
          Submit(h, c, RatePrefix + RateExtra)
    \/ \E h \in Handlers : Check(h)
    \/ \E h \in Handlers : Decide(h)
    \/ \E h \in Handlers : Persist(h)
    \/ \E h \in Handlers : CloseSession(h)
    \/ \E h \in Handlers : ScorerLoad(h)
    \/ (now + TickSeconds <= MaxTime /\ Tick(TickSeconds))

SpecRate == InitRate /\ [][NextRate]_vars

(***************************************************************************)
(* SpecThrottle: the ingest endpoint at the per-minute ceiling.  The       *)
(* initial state is the one an idle center is in after GLOBAL_MINUTE_LIMIT *)
(* alerts with pairwise distinct descriptions were submitted one after the *)
(* other at time 0; the requests that follow are numbered from 1.          *)
(***************************************************************************)
InitThrottle ==
    /\ now = 0
    /\ t0 = 0
    /\ dedupe = << >>
    /\ throttle = (MinuteKey(0) :> [count |-> GLOBAL_MINUTE_LIMIT,
                                    exp |-> ThrottleExpire(0)])
    /\ hs = [h \in Handlers |-> Idle]
    /\ alerts = {}
    /\ nextId = GLOBAL_MINUTE_LIMIT + 1
    /\ submitted = 0
    /\ log = << >>
    /\ admits = [b \in 0..Bucket(MaxTime) |->
                    IF b = 0 THEN [keyed |-> GLOBAL_MINUTE_LIMIT,
                                   within |-> GLOBAL_MINUTE_LIMIT]
                    ELSE [keyed |-> 0, within |-> 0]]
    /\ runCount = [i \in 1..GLOBAL_MINUTE_LIMIT |-> 1]
    /\ EdgeInit

NextThrottle == Next

SpecThrottle == InitThrottle /\ [][NextThrottle]_vars

(***************************************************************************)
(* SpecS4: scenario S4.  One client submits S4Alerts alerts with pairwise  *)
(* distinct descriptions one after the other, within S4Span seconds, to an *)
(* idle center; the span may start at any second of a minute that is a     *)
(* multiple of S4Step.                                                     *)
(***************************************************************************)
S4Alerts == 60
S4Span == 20
S4Step == 10

InitS4 ==
    /\ now \in {s \in 0..(SECONDS_PER_MINUTE - 1) : s % S4Step = 0}
    /\ t0 = now
    /\ dedupe = << >>
    /\ throttle = << >>
    /\ hs = [h \in Handlers |-> Idle]
    /\ alerts = {}
    /\ nextId = 1
    /\ submitted = 0
    /\ log = << >>
    /\ admits = [b \in 0..Bucket(MaxTime) |-> [keyed |-> 0, within |-> 0]]
    /\ runCount = << >>
    /\ EdgeInit

NextS4 ==
    \/ Submit(1, Fresh, S4Alerts)
    \/ Check(1)
    \/ Decide(1)
    \/ Persist(1)
    \/ CloseSession(1)
    \/ ScorerLoad(1)
    \/ (now + S4Step <= t0 + S4Span /\ Tick(S4Step))

SpecS4 == InitS4 /\ [][NextS4]_vars

(***************************************************************************)
(* Edge: Zeek notice monitor (zeek_notice_monitor.py) and the bridge       *)
(* (bridge_service.py).  A note "A::B" is the token sequence <<"A", "B">>; *)
(* a built string f"X:{y}" is the pair <<"X", y>>; a confidence is held in *)
(* hundredths.                                                             *)
(***************************************************************************)
None == "None"

RangeOf(seq) == {seq[i] : i \in DOMAIN seq}

\* dict.get(key): None when the key is absent
Get(d, key) == IF key \in DOMAIN d THEN d[key] ELSE None

\* truth value of a dict entry: present, not None, not empty
Truthy(v) == v # None /\ v # ""

\* `c in self.note` on token sequences: c occurs as a contiguous part
IsPartOf(c, note) ==
    \E i \in 0..(Len(note) - Len(c)) :
        \A j \in 1..Len(c) : note[i + j] = c[j]

critical_notices ==
    { <<"Intel", "Notice">>, <<"Signatures", "Sensitive_Signature">>,
      <<"HTTP", "SQL_Injection_Attacker">>,
      <<"TeamCymruMalwareHashRegistry", "Match">> }

high_notices ==
    { <<"Scan", "Port_Scan">>, <<"Scan", "Address_Scan">>,
      <<"SSH", "Password_Guessing">>, <<"FTP", "Bruteforcing">>,
      <<"SSL", "Invalid_Server_Cert">>, <<"Weird", "Activity">>,
      <<"TrackerHit">> }

medium_notices ==
    { <<"SSH", "Interesting_Hostname">>, <<"SSL", "Certificate_Expired">>,
      <<"Software", "Vulnerable_Version">>, <<"CaptureLoss", "Packet_Drops">> }

InNotices(note, list) == note \in list \/ \E c \in list : IsPartOf(c, note)

\* ZeekNotice.to_severity
to_severity(note) ==
    IF InNotices(note, critical_notices) THEN "critical"
    ELSE IF InNotices(note, high_notices) THEN "high"
    ELSE IF InNotices(note, medium_notices) THEN "medium"
    ELSE "low"

\* ZeekNotice.category: note.split('::')[0]
category(note) == note[1]

NOTICE_TO_MITRE ==
    (<<"Scan", "Port_Scan">> :> "T1046 - Network Service Scanning") @@
    (<<"Scan", "Address_Scan">> :> "T1046 - Network Service Scanning") @@
    (<<"SSH", "Password_Guessing">> :> "T1110 - Brute Force") @@
    (<<"FTP", "Bruteforcing">> :> "T1110 - Brute Force") @@
    (<<"HTTP", "SQL_Injection_Attacker">> :>
        "T1190 - Exploit Public-Facing Application") @@
    (<<"SSL", "Invalid_Server_Cert">> :> "T1557 - Adversary-in-the-Middle") @@
    (<<"Intel", "Notice">> :> "Indicator of Compromise Match") @@
    (<<"Weird", "Activity">> :>
        "T1205 - Traffic Signaling / Protocol Anomaly") @@
    (<<"TeamCymruMalwareHashRegistry", "Match">> :>
        "T1204 - User Execution (Malware)") @@
    (<<"Software", "Vulnerable_Version">> :>
        "T1203 - Exploitation for Client Execution")

\* NOTICE_TO_MITRE.get(notice.note, 'Unknown Technique')
MitreOf(note) ==
    IF note \in DOMAIN NOTICE_TO_MITRE THEN NOTICE_TO_MITRE[note]
    ELSE "Unknown Technique"

\* str.lower() on the categories of the model
Lower ==
    ("Scan" :> "scan") @@ ("SSH" :> "ssh") @@ ("SSL" :> "ssl") @@
    ("Intel" :> "intel") @@ ("DNS" :> "dns") @@ ("Weird" :> "weird")

\* variant: every notice is typed zeek_notice
ZeekEventTypeGeneric(cat) == <<"zeek", "notice">>

\* f"zeek_{notice.category.lower()}"
ZeekEventType(cat) == <<"zeek", Lower[cat]>>

\* escalate_to_oracle: alert_type_map
alert_type_map ==
    (<<"network", "anomaly">> :> <<"network", "anomaly">>) @@
    (<<"ids", "alert">> :> <<"ids", "alert">>) @@
    (<<"signature", "match">> :> <<"signature", "match">>) @@
    (<<"intrusion", "detection">> :> <<"intrusion", "detection">>)

\* the zeek types escalate_to_oracle passes through
zeek_types ==
    { <<"zeek", "scan">>, <<"zeek", "recon">>, <<"zeek", "attack">>,
      <<"zeek", "exploit">>, <<"zeek", "policy">>, <<"zeek", "intel">>,
      <<"zeek", "weird">>, <<"zeek", "notice">> }

\* event_type.startswith("zeek_")
StartsWithZeek(event_type) == Len(event_type) >= 2 /\ event_type[1] = "zeek"

\* the alert_type escalate_to_oracle puts into the payload
NormalizeAlertType(event_type) ==
    IF StartsWithZeek(event_type)
    THEN (IF event_type \in zeek_types THEN event_type
          ELSE <<"zeek", "notice">>)
    ELSE (IF event_type \in DOMAIN alert_type_map
          THEN alert_type_map[event_type] ELSE <<"unknown">>)

\* raw['signature'][:50]; a signature is <<text, length>>
SIG_INDICATOR_CHARS == 50
Truncate(sig, n) == IF sig[2] <= n THEN sig ELSE <<<<sig[1], "cut">>, n>>

\* the indicator list, in the order the code appends
Indicators(raw) ==
    (IF Truthy(Get(raw, "mitre_technique"))
     THEN << <<"MITRE", raw["mitre_technique"]>> >> ELSE << >>)
    \o (IF Truthy(Get(raw, "signature"))
        THEN << <<"SIG", Truncate(raw["signature"], SIG_INDICATOR_CHARS)>> >>
        ELSE << >>)
    \o (IF Truthy(Get(raw, "src_ip"))
        THEN << <<"IP", raw["src_ip"]>> >> ELSE << >>)

\* the JSON body escalate_to_oracle posts for alert_data at time t
Payload(alert_data, t) ==
    [source |-> alert_data["source"],
     alert_type |-> NormalizeAlertType(alert_data["event_type"]),
     severity |-> alert_data["severity"],
     title |-> <<"Sentry Alert", alert_data["event_type"]>>,
     description |-> alert_data["description"],
     raw_data |-> alert_data["raw_data"],
     network_context |-> [src_ip |-> Get(alert_data["raw_data"], "src_ip")],
     indicators |-> Indicators(alert_data["raw_data"]),
     timestamp |-> t]

\* center, models.py: the enumerations AlertRequest validates against
AlertType ==
    { <<"network", "anomaly">>, <<"intrusion", "detection">>,
      <<"malware", "detection">>, <<"suspicious", "behavior">>,
      <<"data", "exfiltration">>, <<"unauthorized", "access">> }

AlertSeverity == {"low", "medium", "high", "critical"}

\* FastAPI validates the body against AlertRequest: 422 on a mismatch,
\* otherwise receive_alert runs and answers 200
OracleStatus(payload) ==
    IF payload["alert_type"] \in AlertType /\ payload["severity"] \in AlertSeverity
    THEN 200 ELSE 422

\* _handle_notice: the alert_data built for a notice
NoticeAlertData(notice) ==
    [source |-> "zeek_notice",
     severity |-> to_severity(notice.note),
     event_type |-> ZeekEventType(category(notice.note)),
     description |-> <<notice.note, notice.msg>>,
     raw_data |-> [notice_type |-> notice.note,
                   category |-> category(notice.note),
                   mitre_technique |-> MitreOf(notice.note),
                   src_ip |-> notice.src_ip],
     confidence |-> 90]

\* Suricata endpoint: severity_map.get(suri_severity, "medium")
severity_map == (1 :> "critical") @@ (2 :> "high") @@ (3 :> "medium") @@ (4 :> "low")
SuricataSeverity(sev) ==
    IF sev \in DOMAIN severity_map THEN severity_map[sev] ELSE "medium"

SURICATA_CATEGORY_TO_MITRE ==
    ("Web Application Attack" :> "T1190") @@ ("Not Suspicious Traffic" :> None)

\* submit_suricata_alert: the normalized AlertRequest
SuricataAlertData(sev, cat, sig, ip) ==
    [source |-> "suricata",
     severity |-> SuricataSeverity(sev),
     event_type |-> <<"ids", "alert">>,
     description |-> <<sig[1], ip>>,
     raw_data |-> [signature |-> sig, category |-> cat, src_ip |-> ip,
                   mitre_technique |-> Get(SURICATA_CATEGORY_TO_MITRE, cat)],
     confidence |-> IF sev <= 2 THEN 95 ELSE 70]

\* BridgeService.add_alert: the Alert appended to bridge_service.alerts
NewAlert(req, t, origin) ==
    [id |-> <<"alrt", t>>, timestamp |-> t, severity |-> req["severity"],
     source |-> req["source"], event_type |-> req["event_type"],
     description |-> req["description"], raw_data |-> req["raw_data"],
     confidence |-> req["confidence"], status |-> "new", origin |-> origin]

(***************************************************************************)
(* Actions of the edge.                                                    *)
(***************************************************************************)
\* notice lines written in one behaviour; requests made to the bridge
MaxNotices == 2
MaxEdgeRequests == 1

EdgeNotes ==
    { <<"Scan", "Port_Scan">>, <<"SSH", "Password_Guessing">>,
      <<"Intel", "Notice">>, <<"SSL", "Certificate_Expired">>,
      <<"DNS", "External_Name">> }
EdgeIps == {"192.168.1.50", None}
EdgeEventTypes ==
    { <<"network", "anomaly">>, <<"intrusion", "detection">>,
      <<"port", "scan">>, <<"zeek", "custom">> }
\* Suricata alerts: <<category, signature>>, a signature being <<text, length>>
EdgeSuricata ==
    { <<"Web Application Attack", <<"ET WEB_SERVER", 80>> >>,
      <<"Not Suspicious Traffic", <<"ET SCAN", 30>> >> }

Remove(seq, i) == SubSeq(seq, 1, i - 1) \o SubSeq(seq, i + 1, Len(seq))

\* Zeek appends a notice line to notice.log
ZeekWritesNotice(note, ip) ==
    /\ Len(noticeLog) < MaxNotices
    /\ noticeLog' = Append(noticeLog,
                           [note |-> note, msg |-> "msg", src_ip |-> ip])
    /\ UNCHANGED sensorVars
    /\ UNCHANGED <<now, centerVars, last_position, monitor, bridge_alerts,
                   local_stats, escTasks, posts, edgeRequests>>
    /\ UNCHANGED readerVars

\* _process_notices: open notice.log and seek to last_position
PollNotices ==
    /\ monitor.pc = "tail"
    /\ monitor' = [pc |-> "loop", line |-> last_position]
    /\ UNCHANGED sensorVars
    /\ UNCHANGED <<now, centerVars, noticeLog, last_position, bridge_alerts,
                   local_stats, escTasks, posts, edgeRequests>>
    /\ UNCHANGED readerVars

\* variant of the rule: critical notices only
AutoEscalatesCritical(severity) == severity = "critical"

\* handle_zeek_notice_alert: if alert_data['severity'] in ('high', 'critical')
AutoEscalates(severity) == severity \in {"high", "critical"}

\* the next line: _handle_notice builds alert_data and awaits the callback
\* handle_zeek_notice_alert, which adds the alert and, for a high or
\* critical notice, goes on to escalate_to_oracle
HandleNotice ==
    /\ monitor.pc = "loop"
    /\ monitor.line < Len(noticeLog)
    /\ LET n == monitor.line + 1
           alert_data == NoticeAlertData(noticeLog[n])
       IN /\ bridge_alerts' =
                Append(bridge_alerts, NewAlert(alert_data, now, <<"notice", n>>))
          /\ monitor' =
                IF AutoEscalates(alert_data["severity"])
                THEN [pc |-> "escalate", line |-> n]
                ELSE [pc |-> "loop", line |-> n]
    /\ UNCHANGED sensorVars
    /\ UNCHANGED <<now, centerVars, noticeLog, last_position, local_stats,
                   escTasks, posts, edgeRequests>>
    /\ UNCHANGED readerVars

\* escalate_to_oracle: client.post and the handling of the response
PostToOracle(alert_data, origin) ==
    LET payload == Payload(alert_data, now)
        code == OracleStatus(payload)
    IN /\ posts' = Append(posts, [payload |-> payload, status |-> code,
                                   origin |-> origin])
       /\ local_stats' =
            IF code = 200
            THEN [local_stats EXCEPT !.escalations = @ + 1]
            ELSE local_stats

\* the escalation of the notice in hand
NoticePost ==
    /\ monitor.pc = "escalate"
    /\ PostToOracle(NoticeAlertData(noticeLog[monitor.line]),
                    <<"notice", monitor.line>>)
    /\ monitor' = [monitor EXCEPT !.pc = "loop"]
    /\ UNCHANGED sensorVars
    /\ UNCHANGED <<now, centerVars, noticeLog, last_position, bridge_alerts,
                   escTasks, edgeRequests>>
    /\ UNCHANGED readerVars

\* end of file: self.last_position = f.tell()
EndPoll ==
    /\ monitor.pc = "loop"
    /\ monitor.line = Len(noticeLog)
    /\ last_position' = monitor.line
    /\ monitor' = Tailing
    /\ UNCHANGED sensorVars
    /\ UNCHANGED <<now, centerVars, noticeLog, bridge_alerts, local_stats,
                   escTasks, posts, edgeRequests>>
    /\ UNCHANGED readerVars

\* POST /alerts (submit_alert): add the alert, schedule its escalation
SubmitAlert(ev, sev, ip) ==
    /\ edgeRequests < MaxEdgeRequests
    /\ edgeRequests' = edgeRequests + 1
    /\ LET req == [source |-> "kitnet", severity |-> sev, event_type |-> ev,
                   description |-> <<"anomaly", ip>>,
                   raw_data |-> [src_ip |-> ip, score |-> 1],
                   confidence |-> 80]
           origin == <<"alerts", edgeRequests + 1>>
       IN /\ bridge_alerts' = Append(bridge_alerts, NewAlert(req, now, origin))
          /\ local_stats' = [local_stats EXCEPT
                                !.anomaly_score = req["raw_data"]["score"]]
          /\ escTasks' = Append(escTasks, [data |-> req, origin |-> origin])
    /\ UNCHANGED sensorVars
    /\ UNCHANGED <<now, centerVars, noticeLog, last_position, monitor, posts>>
    /\ UNCHANGED readerVars

\* POST /api/v1/alerts/suricata (submit_suricata_alert): normalize, add the
\* alert, schedule the escalation of a critical or high one.  The Suricata
\* statistics are written here and read by no other handler.
SubmitSuricata(sev, cat, sig, ip) ==
    /\ edgeRequests < MaxEdgeRequests
    /\ edgeRequests' = edgeRequests + 1
    /\ LET normalized == SuricataAlertData(sev, cat, sig, ip)
           origin == <<"suricata", edgeRequests + 1, sev>>
       IN /\ bridge_alerts' =
                Append(bridge_alerts, NewAlert(normalized, now, origin))
          /\ escTasks' =
                IF normalized["severity"] \in {"critical", "high"}
                THEN Append(escTasks, [data |-> normalized, origin |-> origin])
                ELSE escTasks
    /\ UNCHANGED sensorVars
    /\ UNCHANGED <<now, centerVars, noticeLog, last_position, monitor,
                   local_stats, posts>>
    /\ UNCHANGED readerVars

\* a scheduled escalation runs: escalate_to_oracle(alert_request.model_dump())
RunEscalation(i) ==
    /\ i \in DOMAIN escTasks
    /\ PostToOracle(escTasks[i].data, escTasks[i].origin)
    /\ escTasks' = Remove(escTasks, i)
    /\ UNCHANGED sensorVars
    /\ UNCHANGED <<now, centerVars, noticeLog, last_position, monitor,
                   bridge_alerts, edgeRequests>>
    /\ UNCHANGED readerVars

(***************************************************************************)
(* SpecEdge: the edge in front of a center that answers every POST.        *)
(***************************************************************************)
InitEdge == Init

NextEdge ==
    \/ \E note \in EdgeNotes, ip \in EdgeIps : ZeekWritesNotice(note, ip)
    \/ PollNotices
    \/ HandleNotice
    \/ NoticePost
    \/ EndPoll
    \/ \E ev \in EdgeEventTypes, sev \in {"high", "low"} :
          SubmitAlert(ev, sev, "10.0.0.7")
    \/ \E sev \in 0..5, a \in EdgeSuricata :
          SubmitSuricata(sev, a[1], a[2], "10.0.0.7")
    \/ \E i \in 1..MaxEdgeRequests : RunEscalation(i)

SpecEdge == InitEdge /\ [][NextEdge]_vars

(***************************************************************************)
(* SpecOutage: the edge in front of a center that may be unreachable.  A   *)
(* POST then raises httpx.TimeoutException or httpx.ConnectError, which    *)
(* escalate_to_oracle catches and logs.                                    *)
(***************************************************************************)
NetworkErrors == {"timeout", "connect_error"}
\* the status recorded for a POST that got no response
NoResponse == 0

\* escalate_to_oracle: client.post raises err; the except branch logs it
PostFails(alert_data, origin, err) ==
    /\ posts' = Append(posts, [payload |-> Payload(alert_data, now),
                               status |-> NoResponse, error |-> err,
                               origin |-> origin])
    /\ UNCHANGED local_stats

\* what escalate_to_oracle keeps of an alert whose POST raised: nothing
BridgeRetryQueue == << >>

\* the escalation of the notice in hand, the center being unreachable
NoticePostFails(err) ==
    /\ monitor.pc = "escalate"
    /\ PostFails(NoticeAlertData(noticeLog[monitor.line]),
                 <<"notice", monitor.line>>, err)
    /\ monitor' = [monitor EXCEPT !.pc = "loop"]
    /\ UNCHANGED sensorVars
    /\ UNCHANGED <<now, centerVars, noticeLog, last_position, bridge_alerts,
                   escTasks, edgeRequests>>
    /\ UNCHANGED readerVars

\* a scheduled escalation runs, the center being unreachable
RunEscalationFails(i, err) ==
    /\ i \in DOMAIN escTasks
    /\ PostFails(escTasks[i].data, escTasks[i].origin, err)
    /\ escTasks' = Remove(escTasks, i)
    /\ UNCHANGED sensorVars
    /\ UNCHANGED <<now, centerVars, noticeLog, last_position, monitor,
                   bridge_alerts, edgeRequests>>
    /\ UNCHANGED readerVars

InitOutage == Init

NextOutage ==
    \/ NextEdge
    \/ \E err \in NetworkErrors : NoticePostFails(err)
    \/ \E i \in 1..MaxEdgeRequests, err \in NetworkErrors :
          RunEscalationFails(i, err)

SpecOutage == InitOutage /\ [][NextOutage]_vars

(***************************************************************************)
(* Edge: the Suricata log processor (log_processor.py).  It is one         *)
(* synchronous loop: it forwards the alert events of eve.json to the       *)
(* bridge and from time to time retries the ones it has queued.  An event  *)
(* is its number in eve.json.                                              *)
(***************************************************************************)
\* deque(maxlen=100); retry_failed_alerts: while ... and retried < 10
maxlen == 100
RETRY_BATCH == 10

\* a list append, which knows no bound
UnboundedAppend(q, e) == Append(q, e)

\* deque.append: a full deque discards the item at its left end
DequeAppend(q, e) ==
    IF Len(q) >= maxlen THEN Append(Tail(q), e) ELSE Append(q, e)

\* deque.appendleft: a full deque discards the item at its right end
DequeAppendLeft(q, e) ==
    IF Len(q) >= maxlen THEN <<e>> \o SubSeq(q, 1, Len(q) - 1) ELSE <<e>> \o q

\* the outcomes of requests.post in process_alert: 200/201, another status,
\* requests ConnectionError, any other exception (a read timeout)
PostOutcomes == {"ok", "rejected", "connection_error", "other_error"}

\* process_alert: what it does to retry_queue, and what the bridge took
QueueAfterPost(q, e, outcome) ==
    IF outcome = "connection_error" THEN DequeAppend(q, e) ELSE q

ForwardedAfterPost(e, outcome) ==
    IF outcome = "ok" THEN Append(forwarded, e) ELSE forwarded

\* events written, and retry cycles run, in one behaviour
MaxEvents == 3
MaxRetryCycles == 2

\* tail_eve_log: the next alert event of eve.json goes to process_alert
ProcessEvent(outcome) ==
    /\ processor.pc = "tail"
    /\ eveCount < MaxEvents + processor.start
    /\ eveCount' = eveCount + 1
    /\ retry_queue' = QueueAfterPost(retry_queue, eveCount + 1, outcome)
    /\ forwarded' = ForwardedAfterPost(eveCount + 1, outcome)
    /\ processor' = [processor EXCEPT !.evicted =
            IF outcome = "connection_error" /\ Len(retry_queue) >= maxlen
            THEN @ + 1 ELSE @]
    /\ UNCHANGED <<now, centerVars, bridgeVars, readerVars, kitnetVars, analysisVars>>

\* retry_timer reaches 30: retry_failed_alerts, which returns at once when
\* the queue is empty; before is history, the queue the cycle starts with
RetryStart ==
    /\ processor.pc = "tail"
    /\ processor.cycles < MaxRetryCycles
    /\ processor' = [processor EXCEPT
            !.pc = IF retry_queue = << >> THEN "tail" ELSE "retry",
            !.retried = 0,
            !.before = retry_queue,
            !.cycles = @ + 1]
    /\ UNCHANGED <<now, centerVars, bridgeVars, readerVars, kitnetVars, analysisVars,
                   retry_queue, forwarded, eveCount>>

\* the loop of retry_failed_alerts: event = self.retry_queue.popleft()
RetryPop ==
    /\ processor.pc = "retry"
    /\ retry_queue # << >>
    /\ processor.retried < RETRY_BATCH
    /\ processor' = [processor EXCEPT !.pc = "post", !.hand = Head(retry_queue)]
    /\ retry_queue' = Tail(retry_queue)
    /\ UNCHANGED <<now, centerVars, bridgeVars, readerVars, kitnetVars, analysisVars,
                   forwarded, eveCount>>

\* self.process_alert(event) for the event in hand
RetryPost(outcome) ==
    /\ processor.pc = "post"
    /\ retry_queue' = QueueAfterPost(retry_queue, processor.hand, outcome)
    /\ forwarded' = ForwardedAfterPost(processor.hand, outcome)
    /\ processor' = [processor EXCEPT
            !.pc = IF outcome = "ok" THEN "retry" ELSE "putback",
            !.retried = IF outcome = "ok" THEN @ + 1 ELSE @,
            !.evicted =
                IF outcome = "connection_error" /\ Len(retry_queue) >= maxlen
                THEN @ + 1 ELSE @]
    /\ UNCHANGED <<now, centerVars, bridgeVars, readerVars, kitnetVars, analysisVars,
                   eveCount>>

\* still failing: self.retry_queue.appendleft(event); break
RetryPutBack ==
    /\ processor.pc = "putback"
    /\ retry_queue' = DequeAppendLeft(retry_queue, processor.hand)
    /\ processor' = [processor EXCEPT
            !.pc = "tail",
            !.evicted = IF Len(retry_queue) >= maxlen THEN @ + 1 ELSE @]
    /\ UNCHANGED <<now, centerVars, bridgeVars, readerVars, kitnetVars, analysisVars,
                   forwarded, eveCount>>

\* the loop condition fails: the queue is empty or ten were delivered
RetryEnd ==
    /\ processor.pc = "retry"
    /\ retry_queue = << >> \/ processor.retried >= RETRY_BATCH
    /\ processor' = [processor EXCEPT !.pc = "tail"]
    /\ UNCHANGED <<now, centerVars, bridgeVars, readerVars, kitnetVars, analysisVars,
                   retry_queue, forwarded, eveCount>>

(***************************************************************************)
(* SpecSuricata: the log processor in front of a bridge that comes and     *)
(* goes.  The initial state is the one the processor is in after           *)
(* maxlen - QueueRoom alert events were read while the bridge refused      *)
(* connections; MaxEvents more follow.                                     *)
(***************************************************************************)
QueueRoom == 2
QueuePrefix == maxlen - QueueRoom

InitSuricata ==
    /\ CenterInit
    /\ EdgeCoreInit
    /\ KitnetInit
    /\ scored = << >>
    /\ computed = << >>
    /\ retry_queue = [i \in 1..QueuePrefix |-> i]
    /\ processor = [pc |-> "tail", retried |-> 0, hand |-> 0, cycles |-> 0,
                    evicted |-> 0, start |-> QueuePrefix,
                    before |-> << >>]
    /\ forwarded = << >>
    /\ eveCount = QueuePrefix

NextSuricata ==
    \/ \E outcome \in PostOutcomes : ProcessEvent(outcome)
    \/ RetryStart
    \/ RetryPop
    \/ \E outcome \in PostOutcomes : RetryPost(outcome)
    \/ RetryPutBack
    \/ RetryEnd

SpecSuricata == InitSuricata /\ [][NextSuricata]_vars

(***************************************************************************)
(* Edge: the log reader, NetworkMonitor in network_monitor.py.  A file is  *)
(* the sequence of its lines; a line has a length in bytes, so that the    *)
(* remembered offset is a byte count as in the code.                       *)
(***************************************************************************)
\* lines Zeek writes in one behaviour, truncations, the lengths of a line
MaxLines == 3
MaxRotations == 1
\* records put on the queue, or kept in one context, in one behaviour
MaxEmitted == 4
LineLens == {1, 2}
\* a line is a record (ok), text that parse_line answers None to (bad), or
\* JSON on which parse_line raises (raises)
LineKinds == {"ok", "bad", "raises"}
Uids == {"u1"}

\* bytes of the first n lines of a file: a line is kept with the offset of
\* its end, off, the sum of the lengths of the lines up to it
BytesOf(file, n) == IF n = 0 THEN 0 ELSE file[n].off

FileSize(file) == BytesOf(file, Len(file))

\* f.seek(p); for line in f: the lines, or rests of lines, from byte p on,
\* looking at the lines from the i-th on.  A line that starts before p is
\* read from the middle.
ReadFrom(file, p, i) ==
    LET beyond == {j \in i..Len(file) : BytesOf(file, j) > p}
        a == Len(file) - Cardinality(beyond) + 1
    IN [n \in 1..Cardinality(beyond) |->
            [line |-> file[a + n - 1],
             whole |-> BytesOf(file, a + n - 2) >= p]]

\* f.tell() after the loop: the end of the file, or the offset sought to
\* when that lies beyond the end
Tell(file, p) == IF p > FileSize(file) THEN p ELSE FileSize(file)

\* ZeekLogParser.parse_line: a dict for a whole JSON record; None for a
\* blank line, a comment, and text that is neither JSON nor ten TSV fields,
\* as the rest of a record read from the middle is
parse_line(item) == item.whole /\ item.line.kind = "ok"

\* parse_line raises: json.loads succeeds and the value is not an object
\* (data['_log_type'] = ... is a TypeError), or _normalize_json_fields
\* cannot coerce a field (int() or float() raises ValueError); only
\* json.JSONDecodeError is caught there
Raises(item) == item.whole /\ item.line.kind = "raises"

\* the items the loop of _process_log_file gets through: all of them, or
\* those before the first on which parse_line raises
Completed(items) ==
    LET bad == {i \in DOMAIN items : Raises(items[i])}
    IN IF bad = {} THEN items
       ELSE SubSeq(items, 1, (CHOOSE i \in bad : \A j \in bad : i <= j) - 1)

RECURSIVE ParsedOf(_)
ParsedOf(items) ==
    IF items = << >> THEN << >>
    ELSE (IF parse_line(Head(items)) THEN <<Head(items).line>> ELSE << >>)
            \o ParsedOf(Tail(items))

\* connection_cache is a dict: its entries, in insertion order
HasUid(cache, u) == \E i \in DOMAIN cache : cache[i].uid = u
IndexOf(cache, u) == CHOOSE i \in DOMAIN cache : cache[i].uid = u

\* ConnectionContext(uid=uid)
NewContext(u) == [uid |-> u, dns_queries |-> << >>, notices |-> << >>]

\* _update_connection_context for the records of an auxiliary log, in order;
\* _process_log_file calls it for the logs other than conn and notice, of
\* which the model reads dns
RECURSIVE UpdateContext(_, _)
UpdateContext(cache, recs) ==
    IF recs = << >> THEN cache
    ELSE LET r == Head(recs)
             c == IF HasUid(cache, r.uid) THEN cache
                  ELSE Append(cache, NewContext(r.uid))
             i == IndexOf(c, r.uid)
         IN UpdateContext([c EXCEPT ![i].dns_queries = Append(@, r.id)],
                          Tail(recs))

\* a duration is held in milliseconds: 1 s, 60 s, 3600 s
SECOND == 1000
MINUTE == 60000
HOUR == 3600000

\* the fields of the conn record of a two-second transfer
S2Conn == [duration |-> 2000, orig_bytes |-> 5000000, resp_bytes |-> 1200]

\* a variant of the categories with a ten-second floor for medium
duration_category_coarse(duration) ==
    IF duration < 10 * SECOND THEN "short"
    ELSE IF duration < MINUTE THEN "medium"
    ELSE IF duration < HOUR THEN "long"
    ELSE "very_long"

\* _enrich_data: the connection duration category
duration_category(duration) ==
    IF duration < SECOND THEN "short"
    ELSE IF duration < MINUTE THEN "medium"
    ELSE IF duration < HOUR THEN "long"
    ELSE "very_long"

\* _enrich_data for a conn record: the context of its uid, if cached;
\* dns_before and evicted_before are history, the number of dns records of
\* the uid processed so far and whether its context was ever removed
Enrich(r, cache) ==
    [log_type |-> "conn", id |-> r.id, uid |-> r.uid,
     duration |-> r.data.duration,
     duration_category |-> duration_category(r.data.duration),
     total_bytes |-> r.data.orig_bytes + r.data.resp_bytes,
     orig_bytes |-> r.data.orig_bytes, resp_bytes |-> r.data.resp_bytes,
     dns_before |-> Cardinality({i \in DOMAIN dnsSeen : dnsSeen[i] = r.uid}),
     evicted_before |-> r.uid \in evictedUids,
     has_dns |-> HasUid(cache, r.uid)
                 /\ Len(cache[IndexOf(cache, r.uid)].dns_queries) > 0,
     has_notices |-> HasUid(cache, r.uid)
                     /\ Len(cache[IndexOf(cache, r.uid)].notices) > 0,
     notices |-> IF HasUid(cache, r.uid)
                 THEN cache[IndexOf(cache, r.uid)].notices
                 ELSE << >>,
     dns_queries |-> IF HasUid(cache, r.uid)
                     THEN cache[IndexOf(cache, r.uid)].dns_queries
                     ELSE << >>]

RECURSIVE EnrichAll(_, _)
EnrichAll(recs, cache) ==
    IF recs = << >> THEN << >>
    ELSE <<Enrich(Head(recs), cache)>> \o EnrichAll(Tail(recs), cache)

\* what _process_log_file puts on the queue for the records of notice.log:
\* _enrich_data adds nothing to a notice record, the loop marks it
NoticeItems(recs) ==
    [i \in DOMAIN recs |->
        [log_type |-> "notice", id |-> recs[i].id, uid |-> recs[i].uid,
         _priority |-> "high", _source |-> "zeek_notice"]]

IdsOf(recs) == [i \in DOMAIN recs |-> recs[i].id]

\* self.cache_max_size and the share _cleanup_cache removes
cache_max_size == 10000
CleanupCount == (cache_max_size * 2) \div 10

\* Zeek appends a line to a log file
ZeekAppends(t, kind, uid, len) ==
    /\ lineSeq < MaxLines
    /\ lineSeq' = lineSeq + 1
    /\ zeekFiles' = [zeekFiles EXCEPT ![t] =
            Append(@, [id |-> lineSeq + 1, kind |-> kind, uid |-> uid,
                       len |-> len, off |-> FileSize(@) + len,
                       data |-> S2Conn])]
    /\ rot' = [rot EXCEPT ![t] =
            IF @.case = "truncated" /\ kind = "ok"
            THEN [case |-> "appended", new |-> lineSeq + 1, got |-> << >>]
            ELSE IF @.case = "none" THEN @
            ELSE [@ EXCEPT !.case = "void"]]
    /\ UNCHANGED sensorVars
    /\ UNCHANGED <<now, centerVars, bridgeVars, log_positions,
                   connection_cache, emitted, reader, joinVars>>

\* log rotation: the file is truncated to zero length.  The history follows
\* a truncation of a file the reader has consumed records from.
ZeekRotates(t) ==
    /\ Cardinality({x \in LogTypes : rot[x].case # "none"}) < MaxRotations
    /\ zeekFiles[t] # << >>
    /\ zeekFiles' = [zeekFiles EXCEPT ![t] = << >>]
    /\ rot' = [rot EXCEPT ![t] =
            IF log_positions[t] > 0
            THEN [case |-> "truncated", new |-> 0, got |-> << >>]
            ELSE [@ EXCEPT !.case = "void"]]
    /\ UNCHANGED sensorVars
    /\ UNCHANGED <<now, centerVars, bridgeVars, log_positions,
                   connection_cache, emitted, reader, lineSeq, joinVars>>

\* _process_log_file for the next file of ZEEK_LOGS.  An exception raised
\* in the loop leaves the with block for the except branch, which logs it:
\* the records put on the queue so far stay there and the offset is not set
ProcessLogFileOf(logs) ==
    /\ reader \in DOMAIN logs
    /\ Len(emitted) < MaxEmitted
    /\ {i \in DOMAIN connection_cache :
            Len(connection_cache[i].dns_queries) >= MaxEmitted} = {}
    /\ LET t == logs[reader]
           last == log_positions[t]
           items == ReadFrom(zeekFiles[t], last, 1)
           recs == ParsedOf(Completed(items))
       IN /\ emitted' = IF t = "conn"
                        THEN emitted \o EnrichAll(recs, connection_cache)
                        ELSE IF t = "notice"
                        THEN emitted \o NoticeItems(recs)
                        ELSE emitted
          /\ dnsSeen' = IF t = "dns"
                        THEN dnsSeen \o [i \in DOMAIN recs |-> recs[i].uid]
                        ELSE dnsSeen
          /\ connection_cache' = IF t \in {"conn", "notice"}
                                 THEN connection_cache
                                 ELSE UpdateContext(connection_cache, recs)
          /\ log_positions' = [log_positions EXCEPT
                                  ![t] = IF Completed(items) = items
                                         THEN Tell(zeekFiles[t], last)
                                         ELSE last]
          /\ rot' = [rot EXCEPT ![t] =
                  IF @.case = "appended"
                  THEN [@ EXCEPT !.case = "polled", !.got = IdsOf(recs)]
                  ELSE @]
    /\ reader' = reader + 1
    /\ UNCHANGED sensorVars
    /\ UNCHANGED <<now, centerVars, bridgeVars, zeekFiles, lineSeq,
                   evictedUids>>

ProcessLogFile == ProcessLogFileOf(ZEEK_LOGS)

\* the end of a polling cycle: _cleanup_cache, then sleep
EndCycleOf(logs) ==
    /\ reader = Len(logs) + 1
    /\ reader' = 1
    /\ connection_cache' =
          IF Len(connection_cache) > cache_max_size
          THEN SubSeq(connection_cache, CleanupCount + 1, Len(connection_cache))
          ELSE connection_cache
    /\ evictedUids' =
          IF Len(connection_cache) > cache_max_size
          THEN evictedUids \cup
               {connection_cache[i].uid : i \in 1..CleanupCount}
          ELSE evictedUids
    /\ UNCHANGED sensorVars
    /\ UNCHANGED <<now, centerVars, bridgeVars, zeekFiles, log_positions,
                   emitted, lineSeq, rot, dnsSeen>>

EndCycle == EndCycleOf(ZEEK_LOGS)

(***************************************************************************)
(* SpecReader: the log reader while Zeek writes and rotates its logs.      *)
(***************************************************************************)
InitReader == Init

NextReader ==
    \/ \E t \in LogTypes, kind \in LineKinds, uid \in Uids, len \in LineLens :
          ZeekAppends(t, kind, uid, len)
    \/ \E t \in LogTypes : ZeekRotates(t)
    \/ ProcessLogFile
    \/ EndCycle

SpecReader == InitReader /\ [][NextReader]_vars

(***************************************************************************)
(* SpecCache: the log reader with a connection_cache close to               *)
(* cache_max_size.  The initial state is the one the reader is in after    *)
(* cache_max_size - CacheRoom dns records of pairwise distinct connections  *)
(* (uid = the number of the line) were appended to dns.log and polled;     *)
(* CacheLines more follow.                                                  *)
(***************************************************************************)
CacheRoom == 1
CacheLines == 3
CachePrefix == cache_max_size - CacheRoom

InitCacheAt(n) ==
    /\ CenterInit
    /\ noticeLog = << >>
    /\ last_position = 0
    /\ monitor = Tailing
    /\ bridge_alerts = << >>
    /\ local_stats = [escalations |-> 0, anomaly_score |-> 0]
    /\ escTasks = << >>
    /\ posts = << >>
    /\ edgeRequests = 0
    /\ zeekFiles = [t \in LogTypes |->
            IF t = "dns"
            THEN [i \in 1..n |->
                    [id |-> i, kind |-> "ok", uid |-> i, len |-> 1, off |-> i,
                     data |-> S2Conn]]
            ELSE << >>]
    /\ log_positions = [t \in LogTypes |->
            IF t = "dns" THEN n ELSE 0]
    /\ connection_cache =
            [i \in 1..n |-> [uid |-> i, dns_queries |-> <<i>>,
                             notices |-> << >>]]
    /\ emitted = << >>
    /\ reader = 1
    /\ lineSeq = n
    /\ rot = [t \in LogTypes |-> NoRotation]
    /\ dnsSeen = [i \in 1..n |-> i]
    /\ evictedUids = {}
    /\ SensorInit

InitCache == InitCacheAt(CachePrefix)

\* Zeek appends to dns.log a record of a connection not seen before
ZeekAppendsUnique(len) ==
    /\ lineSeq < CachePrefix + CacheLines
    /\ lineSeq' = lineSeq + 1
    /\ zeekFiles' = [zeekFiles EXCEPT !["dns"] =
            Append(@, [id |-> lineSeq + 1, kind |-> "ok", uid |-> lineSeq + 1,
                       len |-> len, off |-> FileSize(@) + len,
                       data |-> S2Conn])]
    /\ UNCHANGED sensorVars
    /\ UNCHANGED <<now, centerVars, bridgeVars, log_positions,
                   connection_cache, emitted, reader, rot, joinVars>>

NextCache ==
    \/ \E len \in LineLens : ZeekAppendsUnique(len)
    \/ ProcessLogFile
    \/ EndCycle

SpecCache == InitCache /\ [][NextCache]_vars

(***************************************************************************)
(* SpecJoin: the log reader correlating dns and conn records of the same   *)
(* uid, after dns records of cache_max_size connections.  The connections  *)
(* followed are the oldest entry of the cache and the youngest; JoinLines  *)
(* lines are appended.                                                      *)
(***************************************************************************)
JoinLines == 2
JoinUids == {1, cache_max_size}

\* Zeek appends a record of connection u to dns.log or conn.log
ZeekAppendsJoin(t, u, shape) ==
    /\ lineSeq < cache_max_size + JoinLines
    /\ lineSeq' = lineSeq + 1
    /\ zeekFiles' = [zeekFiles EXCEPT ![t] =
            Append(@, [id |-> lineSeq + 1, kind |-> "ok", uid |-> u,
                       len |-> 1, off |-> FileSize(@) + 1,
                       data |-> shape])]
    /\ UNCHANGED sensorVars
    /\ UNCHANGED <<now, centerVars, bridgeVars, log_positions,
                   connection_cache, emitted, reader, rot, joinVars>>

\* a dns record of a connection not seen before
ZeekAppendsFresh == ZeekAppendsJoin("dns", lineSeq + 1, S2Conn)

InitJoin == InitCacheAt(cache_max_size)

NextJoin ==
    \/ \E u \in JoinUids : ZeekAppendsJoin("dns", u, S2Conn)
    \/ \E u \in JoinUids : ZeekAppendsJoin("conn", u, S2Conn)
    \/ ZeekAppendsFresh
    \/ ProcessLogFile
    \/ EndCycle

SpecJoin == InitJoin /\ [][NextJoin]_vars

(***************************************************************************)
(* SpecNotice: the log reader polling conn.log, dns.log and notice.log, in *)
(* the order of ZEEK_LOGS in the source, while Zeek appends whole records  *)
(* of two connections.                                                     *)
(***************************************************************************)
NOTICE_LOGS == <<"conn", "dns", "notice">>
NoticeLogTypes == {NOTICE_LOGS[i] : i \in DOMAIN NOTICE_LOGS}
NoticeUids == {"u1", "u2"}

InitNotice == CenterInit /\ EdgeCoreInitOf(NoticeLogTypes) /\ SensorInit

NextNotice ==
    \/ \E t \in NoticeLogTypes, uid \in NoticeUids :
          ZeekAppends(t, "ok", uid, 1)
    \/ ProcessLogFileOf(NOTICE_LOGS)
    \/ EndCycleOf(NOTICE_LOGS)

SpecNotice == InitNotice /\ [][NextNotice]_vars

(***************************************************************************)
(* Edge: the KitNET detector (kitnet_detector.py) inside the loop of       *)
(* KitNETService.process_packets (main.py).  A reconstruction error and a  *)
(* score are held in thousandths; the errors drawn are such that the       *)
(* divisions of the code are exact.                                        *)
(***************************************************************************)
\* 1.0, and the default of KITNET_THRESHOLD, in thousandths
One == 1000
threshold == 950
\* self.max_training_samples; the length of the vector of extract_features
max_training_samples == 1000
NUM_FEATURES == 17

Max(a, b) == IF a >= b THEN a ELSE b
Min(a, b) == IF a <= b THEN a ELSE b

\* _create_feature_groups: the group that starts at index i, as the
\* sequence of its feature indices
GroupAt(i, group_size, num_features) ==
    [k \in 1..(Min(i + group_size, num_features) - i) |-> i + k - 1]

RECURSIVE GroupsFrom(_, _, _)
GroupsFrom(i, group_size, num_features) ==
    IF i >= num_features THEN << >>
    ELSE LET group == GroupAt(i, group_size, num_features)
         IN (IF Len(group) >= 2 THEN <<group>> ELSE << >>)
            \o GroupsFrom(i + group_size \div 2, group_size, num_features)

\* variant of the group size: half of the features
CreateFeatureGroupsOfHalf(num_features) ==
    LET group_size == Max(3, num_features \div 2)
        groups == GroupsFrom(0, group_size, num_features)
    IN IF groups = << >> /\ num_features > 0
       THEN <<[k \in 1..num_features |-> k - 1]>>
       ELSE groups

_create_feature_groups(num_features) ==
    LET group_size == Max(3, num_features \div 3)
        groups == GroupsFrom(0, group_size, num_features)
    IN IF groups = << >> /\ num_features > 0
       THEN <<[k \in 1..num_features |-> k - 1]>>
       ELSE groups

RECURSIVE SumSeq(_)
SumSeq(q) == IF q = << >> THEN 0 ELSE Head(q) + SumSeq(Tail(q))

RECURSIVE MaxSeq(_)
MaxSeq(q) == IF Len(q) = 1 THEN q[1] ELSE Max(Head(q), MaxSeq(Tail(q)))

\* _train_with_sample: min(avg_loss / 10.0, 1.0)
TrainScore(losses) ==
    IF losses = << >> THEN 0
    ELSE Min(SumSeq(losses) \div (Len(losses) * 10), One)

\* the ensemble score before it is clipped: the mean of the errors
EnsembleMean(scores) == SumSeq(scores) \div Len(scores)

\* _predict_anomaly: max(scores) if scores else 0.0
EnsembleMax(scores) == MaxSeq(scores)

\* _predict_anomaly: min(ensemble_score / 5.0, 1.0)
PredictScore(scores) ==
    IF scores = << >> THEN 0
    ELSE Min(EnsembleMax(scores) \div 5, One)

\* the phase tag of the detector state
Phase(d) ==
    IF ~d.training_mode THEN "DETECT"
    ELSE IF d.training_samples = 0 THEN "CALIBRATE"
    ELSE "TRAIN"

\* the comparison of process_packets with a floor of 0.95
AtLeastThreshold(score) == score >= threshold

\* process_packets: if anomaly_score >= 1.0
IsAnomaly(score) == score >= One

\* the errors of one event, one per autoencoder: lo everywhere but hi at k
ErrorLevels == { <<0, 0>>, <<400, 4000>>, <<30, 4750>>, <<400, 4800>>,
                 <<400, 5200>> }
ErrorProfiles(n) ==
    { [i \in 1..n |-> IF i = k THEN lv[2] ELSE lv[1]] :
        k \in {1, n}, lv \in ErrorLevels }

\* calls of detect_anomaly after training, crashes, in one behaviour
MaxDetectCalls == 2
MaxCrashes == 1

\* variant without the guard `if not self.autoencoders`: every sample calls
\* _initialize_autoencoders, which assigns the groups and appends to the
\* autoencoders
TrainedUnguarded(d) ==
    LET groups == _create_feature_groups(NUM_FEATURES)
    IN [d EXCEPT !.training_samples = @ + 1,
                 !.feature_groups = groups,
                 !.autoencoders = @ + Len(groups)]

\* the detector after _train_with_sample has counted and, on the first
\* sample, called _initialize_autoencoders
Trained(d) ==
    LET groups == IF d.autoencoders = 0 /\ NUM_FEATURES > 0
                  THEN _create_feature_groups(NUM_FEATURES)
                  ELSE d.feature_groups
    IN [d EXCEPT !.training_samples = @ + 1,
                 !.feature_groups = groups,
                 !.autoencoders = Len(groups)]

\* handle_anomaly: the alert sent to the bridge for the call in hand
AnomalyAlert(score, call) ==
    [source |-> "kitnet", anomaly_score |-> score, call |-> call]

\* process_packets after detect_anomaly has returned
AlertsAfter(d, score, call) ==
    IF Phase(d) = "DETECT" /\ IsAnomaly(score)
    THEN Append(kitnet_alerts, AnomalyAlert(score, call))
    ELSE kitnet_alerts

EnterPhase(phases, d) ==
    IF phases # << >> /\ phases[Len(phases)] = Phase(d) THEN phases
    ELSE Append(phases, Phase(d))

\* KitNETService.start: detector.initialize() finds no model file
StartFresh ==
    /\ kitnet.pc = "down"
    /\ model_file.state = "absent"
    /\ detector' = [training_mode |-> TRUE, training_samples |-> 0,
                    autoencoders |-> 0, feature_groups |-> << >>]
    /\ kitnet' = [kitnet EXCEPT !.pc = "up", !.calls = 0, !.handled = "none",
                                !.phases = <<"CALIBRATE">>]
    /\ UNCHANGED <<now, centerVars, bridgeVars, readerVars, suricataVars,
                   analysisVars, model_file, kitnet_alerts>>

\* KitNETService.start: detector.initialize() finds a file and load_model
\* unpickles it; pickle.load raises on a file that was not written to its end
StartLoad ==
    /\ kitnet.pc = "down"
    /\ model_file.state # "absent"
    /\ IF model_file.state = "complete"
       THEN /\ detector' = [training_mode |-> FALSE,
                            training_samples |-> model_file.training_samples,
                            autoencoders |-> Len(model_file.feature_groups),
                            feature_groups |-> model_file.feature_groups]
            /\ kitnet' = [kitnet EXCEPT !.pc = "up", !.calls = 0,
                                        !.handled = "none",
                                        !.phases = <<"DETECT">>]
       ELSE /\ kitnet' = [kitnet EXCEPT !.pc = "failed"]
            /\ UNCHANGED detector
    /\ UNCHANGED <<now, centerVars, bridgeVars, readerVars, suricataVars,
                   analysisVars, model_file, kitnet_alerts>>

\* one event in training, not the last: _train_with_sample returns the loss
TrainSample(losses) ==
    /\ kitnet.pc = "up"
    /\ detector.training_mode
    /\ detector.training_samples + 1 < max_training_samples
    /\ detector' = Trained(detector)
    /\ kitnet' = [kitnet EXCEPT !.calls = @ + 1, !.handled = "train",
                                !.errors = losses,
                                !.score = TrainScore(losses),
                                !.phases = EnterPhase(@, detector')]
    /\ kitnet_alerts' = AlertsAfter(detector', TrainScore(losses),
                                    kitnet.calls + 1)
    /\ UNCHANGED <<now, centerVars, bridgeVars, readerVars, suricataVars,
                   analysisVars, model_file>>

\* the last event of training: training_mode = False, and save_model opens
\* model_path for writing, which empties the file
TrainLast(losses) ==
    /\ kitnet.pc = "up"
    /\ detector.training_mode
    /\ detector.training_samples + 1 >= max_training_samples
    /\ detector' = [Trained(detector) EXCEPT !.training_mode = FALSE]
    /\ kitnet' = [kitnet EXCEPT !.pc = "saving", !.errors = losses,
                                !.phases = EnterPhase(@, detector')]
    /\ model_file' = [state |-> "partial", training_samples |-> 0,
                      feature_groups |-> << >>]
    /\ UNCHANGED <<now, centerVars, bridgeVars, readerVars, suricataVars,
                   analysisVars, kitnet_alerts>>

\* pickle.dump has written the model and the file is closed; the call
\* returns the loss to process_packets
SaveDone ==
    /\ kitnet.pc = "saving"
    /\ model_file' = [state |-> "complete",
                      training_samples |-> detector.training_samples,
                      feature_groups |-> detector.feature_groups]
    /\ kitnet' = [kitnet EXCEPT !.pc = "up", !.calls = @ + 1,
                                !.handled = "train",
                                !.score = TrainScore(kitnet.errors),
                                !.saved_at = Append(@, kitnet.calls + 1)]
    /\ kitnet_alerts' = AlertsAfter(detector, TrainScore(kitnet.errors),
                                    kitnet.calls + 1)
    /\ UNCHANGED <<now, centerVars, bridgeVars, readerVars, suricataVars,
                   analysisVars, detector>>

\* one event after training: _predict_anomaly
Predict(scores) ==
    /\ kitnet.pc = "up"
    /\ ~detector.training_mode
    /\ kitnet.detects < MaxDetectCalls
    /\ kitnet' = [kitnet EXCEPT !.calls = @ + 1, !.handled = "detect",
                                !.detects = @ + 1,
                                !.errors = scores,
                                !.score = PredictScore(scores)]
    /\ kitnet_alerts' = AlertsAfter(detector, PredictScore(scores),
                                    kitnet.calls + 1)
    /\ UNCHANGED <<now, centerVars, bridgeVars, readerVars, suricataVars,
                   analysisVars, detector, model_file>>

\* the process dies: what it held in memory is gone, the file stays
Crash ==
    /\ kitnet.pc \in {"up", "saving"}
    /\ kitnet.crashes < MaxCrashes
    /\ kitnet' = [kitnet EXCEPT !.pc = "down", !.crashes = @ + 1]
    /\ UNCHANGED <<now, centerVars, bridgeVars, readerVars, suricataVars,
                   analysisVars, detector, model_file, kitnet_alerts>>

(***************************************************************************)
(* SpecDetector: one life of the service with a fresh detector.            *)
(* SpecCrash: the same with a crash at any point and a restart.            *)
(***************************************************************************)
InitDetector == Init

NextDetector ==
    \/ StartFresh
    \/ \E losses \in ErrorProfiles(Len(_create_feature_groups(NUM_FEATURES))) :
          \/ TrainSample(losses)
          \/ TrainLast(losses)
          \/ Predict(losses)
    \/ SaveDone

SpecDetector == InitDetector /\ [][NextDetector]_vars

InitCrash == Init

NextCrash ==
    \/ NextDetector
    \/ StartLoad
    \/ Crash

SpecCrash == InitCrash /\ [][NextCrash]_vars

(***************************************************************************)
(* SpecPipeline: the log reader and the detector on the two ends of        *)
(* packet_queue.  The queue is first in, first out, and process_packets is *)
(* its only consumer: the items taken so far are the first kitnet.calls    *)
(* items of emitted.  The service starts without a model file, or with the *)
(* file a completed training has left.                                     *)
(***************************************************************************)
\* the model file after a training that ran to its end
TrainedFile ==
    [state |-> "complete", training_samples |-> max_training_samples,
     feature_groups |-> _create_feature_groups(NUM_FEATURES)]

\* the reconstruction errors drawn for an item: none, or a high one
PipelineErrors ==
    LET n == Len(_create_feature_groups(NUM_FEATURES))
    IN { [i \in 1..n |-> 0], [i \in 1..n |-> IF i = 1 THEN 5200 ELSE 400] }

\* packet_queue.get() has an item
QueueHasItem == kitnet.calls < Len(emitted)

\* the item process_packets takes next
NextPacket == emitted[kitnet.calls + 1]

\* process_packets: packet_data = packet_queue.get();
\* features = extract_features(packet_data), which takes its default for
\* every key that is absent; anomaly_score = detect_anomaly(features)
ProcessPacket(losses) ==
    /\ QueueHasItem
    /\ \/ TrainSample(losses)
       \/ Predict(losses)

InitPipeline ==
    /\ CenterInit
    /\ EdgeCoreInitOf(NoticeLogTypes)
    /\ SuricataInit
    /\ detector = [training_mode |-> TRUE, training_samples |-> 0,
                   autoencoders |-> 0, feature_groups |-> << >>]
    /\ model_file \in {NoFile, TrainedFile}
    /\ kitnet = [pc |-> "down", calls |-> 0, detects |-> 0, handled |-> "none",
                 errors |-> << >>, score |-> 0, saved_at |-> << >>,
                 phases |-> << >>, crashes |-> 0]
    /\ kitnet_alerts = << >>
    /\ scored = << >>
    /\ computed = << >>

NextPipeline ==
    \/ \E t \in {"conn", "notice"} : ZeekAppends(t, "ok", "u1", 1)
    \/ ProcessLogFileOf(NOTICE_LOGS)
    \/ EndCycleOf(NOTICE_LOGS)
    \/ StartFresh
    \/ StartLoad
    \/ \E losses \in PipelineErrors : ProcessPacket(losses)

SpecPipeline == InitPipeline /\ [][NextPipeline]_vars

(***************************************************************************)
(* SpecStoreDown: the ingest endpoint while Redis or the database may be   *)
(* unreachable.  A call to a store that is down raises; the except branch  *)
(* of receive_alert answers HTTPException(status_code=500).  The history   *)
(* keeps the store whose call raised.                                      *)
(***************************************************************************)
Stores == {"key_value_store", "persistent_store"}

\* except Exception as e: raise HTTPException(status_code=500, ...)
AnswerError(h, store) ==
    /\ hs' = [hs EXCEPT ![h] = Idle]
    /\ log' = (IF hs[h].k <= MaxRequests
               THEN (hs[h].k :> (Answer(h, "http_500", 0)
                                    @@ [failed |-> store])) @@ log
               ELSE log)

\* pipe.execute() raises: Redis is unreachable
CheckFails(h) ==
    /\ hs[h].pc = "check"
    /\ AnswerError(h, "key_value_store")
    /\ UNCHANGED <<now, t0, redisVars, dbVars, submitted, admits, runCount>>
    /\ UNCHANGED edgeVars

\* redis_client.setex raises: Redis went away after the pipeline
SetexFails(h) ==
    /\ hs[h].pc = "decide"
    /\ ~(hs[h].dup \/ OverLimit(hs[h].count))
    /\ AnswerError(h, "key_value_store")
    /\ UNCHANGED <<now, t0, redisVars, dbVars, submitted, admits, runCount>>
    /\ UNCHANGED edgeVars

\* get_db(), db.flush() or db.refresh() raises: the database is unreachable
PersistFails(h) ==
    /\ hs[h].pc = "persist"
    /\ AnswerError(h, "persistent_store")
    /\ UNCHANGED <<now, t0, redisVars, dbVars, submitted, admits, runCount>>
    /\ UNCHANGED edgeVars

InitStoreDown == Init

NextStoreDown ==
    \/ Next
    \/ \E h \in Handlers : CheckFails(h)
    \/ \E h \in Handlers : SetexFails(h)
    \/ \E h \in Handlers : PersistFails(h)

SpecStoreDown == InitStoreDown /\ [][NextStoreDown]_vars

(***************************************************************************)
(* Center: the deterministic threat score of ThreatAnalyzer                *)
(* (analytics.py).  A weight and a component score are held in hundredths, *)
(* the weights of the combination in tenths and the final score in         *)
(* thousandths.  An indicator is the sequence of the tokens of its text.   *)
(***************************************************************************)
\* self.severity_weights and self.alert_type_weights, with the default of
\* dict.get
severity_weights(severity) ==
    CASE severity = "low" -> 20
      [] severity = "medium" -> 50
      [] severity = "high" -> 80
      [] severity = "critical" -> 100
      [] OTHER -> 50

alert_type_weights(alert_type) ==
    CASE alert_type = "network_anomaly" -> 60
      [] alert_type = "intrusion_detection" -> 90
      [] alert_type = "malware_detection" -> 100
      [] alert_type = "suspicious_behavior" -> 70
      [] alert_type = "data_exfiltration" -> 100
      [] alert_type = "unauthorized_access" -> 90
      [] OTHER -> 50

\* _load_threat_patterns: both sets are empty
malicious_ips == {}
suspicious_domains == {}

unusual_ports == {22, 23, 135, 139, 445, 1433, 3389}

\* an optional value is a sequence of at most one element; network_context
\* is None
NoContext == << >>

\* _calculate_context_score
_calculate_context_score(alert) ==
    LET raw == alert.raw_data
        network ==
            IF alert.network_context = NoContext THEN 0
            ELSE LET net == alert.network_context[1]
                 IN (IF net.connection_count > 100 THEN 30 ELSE 0)
                    + (IF net.dest_port \in unusual_ports THEN 20 ELSE 0)
                    + (IF net.external_connection THEN 20 ELSE 0)
        payload ==
            (IF raw.bytes_transferred > 1000000 THEN 20 ELSE 0)
            + (IF raw.failed_auth > 5 THEN 30 ELSE 0)
    IN Min(100, network + payload)

\* the SELECT COUNT(*) of _calculate_historical_score returns, or db.execute
\* raises
QueryOutcomes == {"returns", "raises"}

\* _calculate_historical_score: count is the number of alerts of the type
\* stored in the last 24 hours, the alert in hand among them
_calculate_historical_score(count, query) ==
    IF query = "raises" THEN 30
    ELSE IF count > 10 THEN 80
    ELSE IF count > 5 THEN 60
    ELSE IF count > 2 THEN 40
    ELSE 20

\* _matches_attack_pattern: .*\.exe$, .*\.(php|jsp|asp).*\?.* and .*[<>].*
_matches_attack_pattern(indicator) ==
    \/ /\ Len(indicator) >= 2
       /\ indicator[Len(indicator) - 1] = "."
       /\ indicator[Len(indicator)] = "exe"
    \/ \E i \in 1..(Len(indicator) - 1) :
          /\ indicator[i] = "."
          /\ indicator[i + 1] \in {"php", "jsp", "asp"}
          /\ \E j \in (i + 2)..Len(indicator) : indicator[j] = "?"
    \/ \E i \in DOMAIN indicator : indicator[i] \in {"<", ">"}

\* the share of one indicator in _calculate_indicator_score
IndicatorPoints(indicator) ==
    (IF indicator \in malicious_ips THEN 40
     ELSE IF indicator \in suspicious_domains THEN 30
     ELSE 0)
    + (IF _matches_attack_pattern(indicator) THEN 20 ELSE 0)

\* _calculate_indicator_score
_calculate_indicator_score(alert) ==
    Min(100, SumSeq([i \in DOMAIN alert.indicators |->
                        IndicatorPoints(alert.indicators[i])]))

\* base_score of _calculate_threat_score_deterministic
BaseScore(alert) ==
    (severity_weights(alert.severity)
        + alert_type_weights(alert.alert_type)) \div 2

\* the weighted combination, clamped to [0, 1]
FinalScore(base, context, historical, indicator) ==
    Max(0, Min(One, 3 * base + 3 * context + 2 * historical + 2 * indicator))

\* _calculate_threat_score_deterministic, with its four components
_calculate_threat_score_deterministic(alert, count, query) ==
    LET base == BaseScore(alert)
        context == _calculate_context_score(alert)
        historical == _calculate_historical_score(count, query)
        indicator == _calculate_indicator_score(alert)
    IN [alert |-> alert, count |-> count, query |-> query,
        base |-> base, context |-> context, historical |-> historical,
        indicator |-> indicator,
        final |-> FinalScore(base, context, historical, indicator)]

\* the indicators and the alerts scored
IpIndicator == <<"45", ".", "33", ".", "32", ".", "156">>
IndicatorLists ==
    {<< >>, <<IpIndicator>>, <<<<"invoice", ".", "exe">>>>,
     <<IpIndicator, <<"shell", ".", "php", "?", "cmd">>>>}

NetworkContexts ==
    {NoContext} \cup
    {<<net>> : net \in [dest_port : {443, 22}, external_connection : BOOLEAN,
                        connection_count : {100, 150}]}

ScoredAlerts ==
    [severity : {"low", "medium", "high", "critical"},
     alert_type : {"data_exfiltration", "network_anomaly"},
     raw_data : [bytes_transferred : {1000000, 5000000},
                 failed_auth : {0, 6}],
     network_context : NetworkContexts,
     indicators : IndicatorLists]

\* the numbers of alerts of the type in the last 24 hours
StoredCounts == {1, 2, 3, 5, 6, 10, 11}

\* the alert of the deterministic-scoring scenario
S5Alert ==
    [severity |-> "high", alert_type |-> "data_exfiltration",
     raw_data |-> [bytes_transferred |-> 5000000, failed_auth |-> 0],
     network_context |-> <<[dest_port |-> 443, external_connection |-> TRUE,
                            connection_count |-> 150]>>,
     indicators |-> <<IpIndicator>>]

\* alerts scored in one behaviour
MaxScored == 1

\* the analyzer scores an alert; scored holds the results
CalculateThreatScore(alert, count, query) ==
    /\ Len(scored) < MaxScored
    /\ scored' = Append(scored,
            _calculate_threat_score_deterministic(alert, count, query))
    /\ UNCHANGED <<now, centerVars, bridgeVars, readerVars, suricataVars,
                   kitnetVars, computed>>

(***************************************************************************)
(* SpecScore: the deterministic scorer over the alerts of ScoredAlerts.    *)
(***************************************************************************)
InitScore == Init

NextScore ==
    \E alert \in ScoredAlerts, count \in StoredCounts, query \in QueryOutcomes :
        CalculateThreatScore(alert, count, query)

SpecScore == InitScore /\ [][NextScore]_vars

(***************************************************************************)
(* Center: the Background Scorer's choice of a score                       *)
(* (process_alert_background, calculate_threat_score and                   *)
(* _calculate_threat_score_ai).  A number of the reasoning service's JSON  *)
(* is held in tenths, the product of two of them in hundredths; a score    *)
(* returned or stored is held in thousandths.                              *)
(***************************************************************************)
\* float("nan"), which json.loads reads from NaN
NaN == 99999

\* the built-ins min(a, b) and max(a, b) of Python: the first argument
\* unless the second compares smaller (greater); a comparison with NaN is
\* false
PyLess(a, b) == a # NaN /\ b # NaN /\ a < b
PyMin(a, b) == IF PyLess(b, a) THEN b ELSE a
PyMax(a, b) == IF PyLess(a, b) THEN b ELSE a
PyMul(a, b) == IF a = NaN \/ b = NaN THEN NaN ELSE a * b

\* threat_score = 0.4 of process_alert_background, the 0.5 of the except
\* branch of calculate_threat_score
DEFAULT_STORED == 400
DEFAULT_MODERATE == 500
\* the defaults of ai_analysis.get for threat_score and confidence, tenths
DEFAULT_AI_SCORE == 5
DEFAULT_AI_CONFIDENCE == 8

\* the product of the reply's numbers as it is, in thousandths
WeightedUnclamped(threat_score, confidence) ==
    LET final_score == PyMul(threat_score, confidence)
    IN IF final_score = NaN THEN NaN ELSE 10 * final_score

\* final_score = threat_score * confidence; max(0.0, min(1.0, final_score))
WeightedByConfidence(threat_score, confidence) ==
    LET final_score == PyMul(threat_score, confidence)
    IN PyMax(0, PyMin(One, IF final_score = NaN THEN NaN ELSE 10 * final_score))

\* AlertSeverity(alert.severity) and AlertType(alert.alert_type) raise
\* ValueError for a value that is no member
AlertSeverities == {"low", "medium", "high", "critical"}
AlertTypes == {"network_anomaly", "intrusion_detection", "malware_detection",
               "suspicious_behavior", "data_exfiltration",
               "unauthorized_access"}
EnumRaises(alert) ==
    alert.severity \notin AlertSeverities \/ alert.alert_type \notin AlertTypes

\* the reply of the reasoning service: none (reason_with_ai returns None),
\* text that is not JSON, JSON that is not an object or whose numbers
\* float() rejects, or an object; a key that is absent is << >>
AiNumbers == {-2, 0, 5, 10, 15, NaN}
AiFields == {<< >>} \cup {<<v>> : v \in AiNumbers}
AiReplies ==
    [kind : {"none", "not_json", "not_numbers"},
     threat_score : {<< >>}, confidence : {<< >>}]
    \cup [kind : {"object"}, threat_score : AiFields, confidence : AiFields]

GetOr(field, default) == IF field = << >> THEN default ELSE field[1]

\* _calculate_threat_score_deterministic as called: its value, or raises
DeterministicOutcome(alert, count, query) ==
    IF EnumRaises(alert) THEN << >>
    ELSE <<_calculate_threat_score_deterministic(alert, count, query).final>>

\* _calculate_threat_score_ai: the weighted score of a reply that parses,
\* the deterministic score otherwise; << >> when that raises
_calculate_threat_score_ai(alert, count, query, reply) ==
    IF reply.kind = "object"
    THEN <<WeightedByConfidence(GetOr(reply.threat_score, DEFAULT_AI_SCORE),
                                GetOr(reply.confidence, DEFAULT_AI_CONFIDENCE))>>
    ELSE DeterministicOutcome(alert, count, query)

\* calculate_threat_score: the path taken and the value returned
calculate_threat_score(alert, count, query, ai_client, reply) ==
    LET outcome == IF ai_client
                   THEN _calculate_threat_score_ai(alert, count, query, reply)
                   ELSE DeterministicOutcome(alert, count, query)
    IN [path |-> IF outcome = << >> THEN "default"
                 ELSE IF ai_client /\ reply.kind = "object" THEN "augmented"
                 ELSE "deterministic",
        returned |-> GetOr(outcome, DEFAULT_MODERATE)]

\* settings: AZURE_OPENAI_API_KEY is set, AI_ENABLED
Settings == [api_key : BOOLEAN, enabled : BOOLEAN]
Configured(settings) == settings.api_key /\ settings.enabled

\* the alerts the Background Scorer is given: the scenario's, a quiet one,
\* and a row whose severity is no member of AlertSeverity
BackgroundAlerts ==
    {S5Alert,
     [severity |-> "low", alert_type |-> "network_anomaly",
      raw_data |-> [bytes_transferred |-> 1000000, failed_auth |-> 0],
      network_context |-> NoContext, indicators |-> << >>],
     [S5Alert EXCEPT !.severity = "info"]}

\* process_alert_background up to alert.threat_score = threat_score.
\* client_ok: AsyncAzureOpenAI(...) succeeded in ThreatAnalyzer.__init__
ProcessAlertBackground(alert, count, query, settings, client_ok, reply) ==
    /\ Len(scored) < MaxScored
    /\ LET ai_client == Configured(settings) /\ client_ok
           called == calculate_threat_score(alert, count, query, ai_client,
                                            reply)
       IN scored' = Append(scored,
            [alert |-> alert, count |-> count, query |-> query,
             settings |-> settings, reply |-> reply,
             configured |-> Configured(settings),
             deterministic |-> DeterministicOutcome(alert, count, query),
             path |-> IF Configured(settings) THEN called.path ELSE "skipped",
             returned |-> called.returned,
             threat_score |-> IF Configured(settings) THEN called.returned
                              ELSE DEFAULT_STORED])
    /\ UNCHANGED <<now, centerVars, bridgeVars, readerVars, suricataVars,
                   kitnetVars, computed>>

(***************************************************************************)
(* SpecBackground: the Background Scorer over BackgroundAlerts, every      *)
(* setting and every reply of the reasoning service.                       *)
(***************************************************************************)
InitBackground == Init

NextBackground ==
    \E alert \in BackgroundAlerts, count \in {1, 11}, query \in QueryOutcomes,
       settings \in Settings, client_ok \in BOOLEAN, reply \in AiReplies :
        ProcessAlertBackground(alert, count, query, settings, client_ok, reply)

SpecBackground == InitBackground /\ [][NextBackground]_vars

(***************************************************************************)
(* Center: AlertCorrelator._temporal_correlation (analytics.py).  A        *)
(* timestamp is held in seconds and a correlation score in 1800ths, so     *)
(* that 1.0 - time_diff / 1800 is exact.                                   *)
(***************************************************************************)
\* timedelta(minutes=30) in seconds, and the divisor of the score
WINDOW_SECONDS == 1800

Abs(x) == IF x < 0 THEN -x ELSE x

\* a variant without abs()
SignedDiff(a, b) == a.timestamp - b.timestamp

\* time_diff = abs((alert.timestamp - nearby_alert.timestamp)
\*                     .total_seconds())
TimeDiff(a, b) == Abs(a.timestamp - b.timestamp)

\* score = max(0.0, 1.0 - (time_diff / 1800))
TemporalScore(a, b) == Max(0, WINDOW_SECONDS - TimeDiff(a, b))

\* if score > 0.5
AboveHalf(score) == 2 * score > WINDOW_SECONDS

\* SELECT * FROM alerts WHERE timestamp BETWEEN %s AND %s AND id != %s
NearbyAlerts(alert, table) ==
    {b \in table : /\ b.timestamp >= alert.timestamp - WINDOW_SECONDS
                   /\ b.timestamp <= alert.timestamp + WINDOW_SECONDS
                   /\ b.id # alert.id}

\* _temporal_correlation: the (related alert, score) pairs; none when the
\* query raises
_temporal_correlation(alert, table, query) ==
    IF query = "raises" THEN {}
    ELSE {[related_alert_id |-> b.id, correlation_score |-> TemporalScore(alert, b)] :
            b \in {n \in NearbyAlerts(alert, table) :
                        AboveHalf(TemporalScore(alert, n))}}

\* the tables of alerts looked at: three rows with timestamps around the
\* limits of the window and of the threshold
CorrelatedIds == 1..3
Timestamps == {0, 1, 899, 900, 901, 1800, 1801, 2700}
AlertTables ==
    {{[id |-> i, timestamp |-> ts[i]] : i \in CorrelatedIds} :
        ts \in [CorrelatedIds -> Timestamps]}

\* calls of pure functions in one behaviour
MaxComputed == 1

\* find_correlations for every row of a table; db.execute either takes the
\* SQL string or raises, the same way for every call
CorrelateAll(table, query) ==
    /\ Len(computed) < MaxComputed
    /\ computed' = Append(computed,
            [fn |-> "temporal", table |-> table, query |-> query,
             result |-> [i \in CorrelatedIds |->
                    _temporal_correlation(
                        CHOOSE a \in table : a.id = i, table, query)]])
    /\ UNCHANGED <<now, centerVars, bridgeVars, readerVars, suricataVars,
                   kitnetVars, scored>>

(***************************************************************************)
(* SpecCorrelate: temporal correlation over the tables of AlertTables.     *)
(***************************************************************************)
InitCorrelate == Init

NextCorrelate ==
    \E table \in AlertTables, query \in QueryOutcomes :
        CorrelateAll(table, query)

SpecCorrelate == InitCorrelate /\ [][NextCorrelate]_vars

(***************************************************************************)
(* Center: ThreatAnalyzer._calculate_overall_risk (analytics.py).  A       *)
(* confidence is held in tenths, a risk contribution (weight in hundredths *)
(* times confidence) in thousandths; the quotient                          *)
(* total_risk / (1 + len(threats) * 0.1) is kept exact as the fraction     *)
(* num / den of thousandths.                                               *)
(***************************************************************************)
\* threats of a list, and the ThreatInfo records drawn
MaxThreats == 3
ThreatInfos == [severity : AlertSeverities, confidence_score : {0, 5, 10}]

RECURSIVE ThreatLists(_)
ThreatLists(n) ==
    IF n = 0 THEN {<< >>}
    ELSE ThreatLists(n - 1)
         \cup {Append(l, t) : l \in {x \in ThreatLists(n - 1) : Len(x) = n - 1},
                              t \in ThreatInfos}

\* total_risk: the sum of severity_weight * threat.confidence_score
TotalRisk(threats) ==
    SumSeq([i \in DOMAIN threats |->
                severity_weights(threats[i].severity)
                    * threats[i].confidence_score])

\* risk_score = total_risk / (1 + len(threats) * 0.1)
RiskQuotient(threats) ==
    [num |-> 10 * TotalRisk(threats), den |-> 10 + Len(threats)]

\* a variant that returns risk_score as it is
Unclamped(q) == q

\* min(1.0, risk_score)
ClampToOne(q) ==
    IF q.num > One * q.den THEN [num |-> One, den |-> 1] ELSE q

\* _calculate_overall_risk
_calculate_overall_risk(threats) ==
    IF threats = << >> THEN [num |-> 0, den |-> 1]
    ELSE ClampToOne(RiskQuotient(threats))

\* calculate_analytics asks for the overall risk of a list of threats
OverallRisk(threats) ==
    /\ Len(computed) < MaxComputed
    /\ computed' = Append(computed,
            [fn |-> "risk", threats |-> threats,
             result |-> _calculate_overall_risk(threats)])
    /\ UNCHANGED <<now, centerVars, bridgeVars, readerVars, suricataVars,
                   kitnetVars, scored>>

(***************************************************************************)
(* SpecRisk: the overall risk of every list of at most MaxThreats threats. *)
(***************************************************************************)
InitRisk == Init

NextRisk == \E threats \in ThreatLists(MaxThreats) : OverallRisk(threats)

SpecRisk == InitRisk /\ [][NextRisk]_vars

(***************************************************************************)
(* SpecGroups: _initialize_autoencoders for every number of features up to *)
(* MaxFeatureCount.                                                        *)
(***************************************************************************)
MaxFeatureCount == 120

\* _initialize_autoencoders: self.feature_groups =
\* self._create_feature_groups(num_features), and an autoencoder per group
InitializeAutoencoders(num_features) ==
    /\ Len(computed) < MaxComputed
    /\ computed' = Append(computed,
            [fn |-> "groups", num_features |-> num_features,
             feature_groups |-> _create_feature_groups(num_features),
             autoencoders |-> Len(_create_feature_groups(num_features))])
    /\ UNCHANGED <<now, centerVars, bridgeVars, readerVars, suricataVars,
                   kitnetVars, scored>>

InitGroups == Init

NextGroups == \E d \in 1..MaxFeatureCount : InitializeAutoencoders(d)

SpecGroups == InitGroups /\ [][NextGroups]_vars

(***************************************************************************)
(* Center: ThreatAnalyzer._recommend_threshold_deterministic               *)
(* (analytics.py).  An alert list is the sequence of the severities of its *)
(* alerts; a threshold is held in thousandths; alerts per hour and the    *)
(* ratio are fractions, compared by cross-multiplication.                  *)
(***************************************************************************)
SECONDS_PER_HOUR == 3600

\* alerts_per_hour = (total_alerts / time_window) * 3600 if time_window > 0
\* else 0
AlertsPerHour(alert_list, time_window) ==
    IF time_window > 0
    THEN [num |-> Len(alert_list) * SECONDS_PER_HOUR, den |-> time_window]
    ELSE [num |-> 0, den |-> 1]

\* variant of the count: critical alerts only
CriticalSeverityCount(alert_list) ==
    Cardinality({i \in DOMAIN alert_list : alert_list[i] = "critical"})

\* high_severity_count: the alerts whose severity is high or critical
HighSeverityCount(alert_list) ==
    Cardinality({i \in DOMAIN alert_list :
                    alert_list[i] \in {"high", "critical"}})

\* high_severity_ratio = high_severity_count / max(total_alerts, 1)
HighSeverityRatio(alert_list) ==
    [num |-> HighSeverityCount(alert_list), den |-> Max(Len(alert_list), 1)]

\* comparisons of a fraction with num_/den_
FracLess(q, num_, den_) == q.num * den_ < num_ * q.den
FracMore(q, num_, den_) == q.num * den_ > num_ * q.den

\* the decision logic and the dict returned
_recommend_threshold_deterministic(alert_list, time_window) ==
    LET alerts_per_hour == AlertsPerHour(alert_list, time_window)
        high_severity_ratio == HighSeverityRatio(alert_list)
    IN IF FracLess(alerts_per_hour, 1, 1)
          /\ FracMore(high_severity_ratio, 5, 10)
       THEN [action |-> "LOWER", recommended_value |-> 930,
             current_value |-> 950, ai_generated |-> FALSE]
       ELSE IF FracMore(alerts_per_hour, 20, 1)
               /\ FracLess(high_severity_ratio, 1, 10)
       THEN [action |-> "RAISE", recommended_value |-> 970,
             current_value |-> 950, ai_generated |-> FALSE]
       ELSE [action |-> "MAINTAIN", recommended_value |-> 950,
             current_value |-> 950, ai_generated |-> FALSE]

\* an alert list of h high, c critical, m medium and l low alerts
AlertsOfCounts(h, c, m, l) ==
    [i \in 1..(h + c + m + l) |->
        IF i <= h THEN "high"
        ELSE IF i <= h + c THEN "critical"
        ELSE IF i <= h + c + m THEN "medium"
        ELSE "low"]

\* the lists and the windows, in seconds, drawn
ThresholdAlertLists ==
    {AlertsOfCounts(h, c, m, l) :
        h \in {0, 1, 8}, c \in {0, 1}, m \in {0, 1}, l \in {0, 2, 9, 10, 19}}
TimeWindows == {1, 179, 180, 181, 3599, 3600, 3601, 7200, 36000}

\* _recommend_threshold_adjustment without a reasoning client, or with a
\* reply that does not parse
RecommendThreshold(alert_list, time_window) ==
    /\ Len(computed) < MaxComputed
    /\ computed' = Append(computed,
            [fn |-> "threshold", alerts |-> alert_list,
             time_window |-> time_window,
             result |-> _recommend_threshold_deterministic(alert_list,
                                                           time_window)])
    /\ UNCHANGED <<now, centerVars, bridgeVars, readerVars, suricataVars,
                   kitnetVars, scored>>

(***************************************************************************)
(* SpecThreshold: the deterministic recommendation for every list of       *)
(* ThresholdAlertLists and every window of TimeWindows.                    *)
(***************************************************************************)
InitThreshold == Init

NextThreshold ==
    \E alert_list \in ThresholdAlertLists, time_window \in TimeWindows :
        RecommendThreshold(alert_list, time_window)

SpecThreshold == InitThreshold /\ [][NextThreshold]_vars

(***************************************************************************)
(* Edge: KitNETDetector.extract_features (kitnet_detector.py).  An event   *)
(* is a dict: a function from the keys to an optional value, << >> for a   *)
(* key that is absent.  The integer features are held as they are, the     *)
(* fractional ones in millionths, rounded down.                            *)
(***************************************************************************)
Million == 1000000

EventKeys == {"orig_bytes", "resp_bytes", "duration", "src_port", "dest_port",
              "src_ip", "dest_ip", "protocol", "orig_pkts", "resp_pkts",
              "timestamp", "conn_state", "service"}

\* packet_data.get(key, default)
DictGet(packet_data, key, default) == GetOr(packet_data[key], default)

\* an address: the parts between the dots, and whether each is a number
NoAddress == [parts |-> <<0, 0, 0, 0>>, numeric |-> TRUE]

\* _ip_to_int: 0 when a part is missing or is no number
_ip_to_int(ip) ==
    IF ip.numeric /\ Len(ip.parts) >= 4
    THEN ip.parts[1] * 16777216 + ip.parts[2] * 65536 + ip.parts[3] * 256
            + ip.parts[4]
    ELSE 0

\* protocol.lower() on the protocols of the model
ProtocolLower(protocol) ==
    CASE protocol = "TCP" -> "tcp"
      [] protocol = "UDP" -> "udp"
      [] OTHER -> protocol

\* _protocol_to_int
_protocol_to_int(protocol) ==
    CASE ProtocolLower(protocol) = "tcp" -> 6
      [] ProtocolLower(protocol) = "udp" -> 17
      [] ProtocolLower(protocol) = "icmp" -> 1
      [] OTHER -> 0

\* the timestamp of the event: an ISO string, or a value fromisoformat
\* rejects (Zeek's epoch number, other text)
NowStamp == [kind |-> "iso", hour |-> 12, weekday |-> 2, second |-> 30]

\* a variant whose except branch returns no features
TimeFeaturesOrNone(timestamp) ==
    IF timestamp.kind = "iso"
    THEN <<(timestamp.hour * Million) \div 24,
           (timestamp.weekday * Million) \div 6,
           (timestamp.second * Million) \div 59>>
    ELSE << >>

\* _extract_time_features
_extract_time_features(timestamp) ==
    IF timestamp.kind = "iso"
    THEN <<(timestamp.hour * Million) \div 24,
           (timestamp.weekday * Million) \div 6,
           (timestamp.second * Million) \div 59>>
    ELSE <<0, 0, 0>>

\* conn_state_map.get(conn_state, 0.0), in millionths
conn_state_map(conn_state) ==
    CASE conn_state = "S0" -> 100000
      [] conn_state = "S1" -> 200000
      [] conn_state = "SF" -> 300000
      [] conn_state = "REJ" -> 400000
      [] conn_state = "S2" -> 500000
      [] conn_state = "S3" -> 600000
      [] conn_state = "RSTO" -> 700000
      [] conn_state = "RSTR" -> 800000
      [] conn_state = "RSTOS0" -> 900000
      [] conn_state = "RSTRH" -> 1000000
      [] OTHER -> 0

\* _extract_zeek_flow_features; a service is held by the length of its
\* name, a duration in whole seconds; min(duration / 3600.0, 1.0) is 1.0
\* from 3600 s on
_extract_zeek_flow_features(packet_data) ==
    LET service == DictGet(packet_data, "service", 0)
    IN <<conn_state_map(DictGet(packet_data, "conn_state", "S0")),
         (service * Million) \div 20,
         IF DictGet(packet_data, "duration", 0) >= 3600 THEN Million
         ELSE (DictGet(packet_data, "duration", 0) * 10000) \div 36,
         Min(DictGet(packet_data, "orig_bytes", 0)
                + DictGet(packet_data, "resp_bytes", 0), Million)>>

\* extract_features: the feature list handed to np.array(...).reshape(1, -1)
extract_features(packet_data) ==
    <<DictGet(packet_data, "orig_bytes", 0),
      DictGet(packet_data, "resp_bytes", 0),
      DictGet(packet_data, "duration", 0),
      DictGet(packet_data, "src_port", 0),
      DictGet(packet_data, "dest_port", 0),
      _ip_to_int(DictGet(packet_data, "src_ip", NoAddress)),
      _ip_to_int(DictGet(packet_data, "dest_ip", NoAddress)),
      _protocol_to_int(DictGet(packet_data, "protocol", "tcp")),
      DictGet(packet_data, "orig_pkts", 0),
      DictGet(packet_data, "resp_pkts", 0)>>
    \o _extract_time_features(DictGet(packet_data, "timestamp", NowStamp))
    \o _extract_zeek_flow_features(packet_data)

\* a conn event with every key, and one with none
FullEvent ==
    [k \in EventKeys |->
        CASE k = "orig_bytes" -> <<5000>>
          [] k = "resp_bytes" -> <<1200>>
          [] k = "duration" -> <<2>>
          [] k = "src_port" -> <<51514>>
          [] k = "dest_port" -> <<443>>
          [] k = "src_ip" -> <<[parts |-> <<10, 0, 0, 5>>, numeric |-> TRUE]>>
          [] k = "dest_ip" -> <<[parts |-> <<45, 33, 32, 156>>,
                                numeric |-> TRUE]>>
          [] k = "protocol" -> <<"TCP">>
          [] k = "orig_pkts" -> <<12>>
          [] k = "resp_pkts" -> <<9>>
          [] k = "timestamp" -> <<[kind |-> "iso", hour |-> 23, weekday |-> 6,
                                  second |-> 59]>>
          [] k = "conn_state" -> <<"SF">>
          [] k = "service" -> <<3>>]
EmptyEvent == [k \in EventKeys |-> << >>]

\* the events drawn: the two above, the full event without one key, the
\* empty event with one key, and events whose values take the other branches
FeatureEvents ==
    {FullEvent, EmptyEvent}
    \cup {[FullEvent EXCEPT ![k] = << >>] : k \in EventKeys}
    \cup {[EmptyEvent EXCEPT ![k] = FullEvent[k]] : k \in EventKeys}
    \cup {[FullEvent EXCEPT !["timestamp"] = <<[kind |-> "epoch", hour |-> 0,
                                                weekday |-> 0, second |-> 0]>>],
          [FullEvent EXCEPT !["src_ip"] = <<[parts |-> << >>,
                                             numeric |-> FALSE]>>],
          [FullEvent EXCEPT !["protocol"] = <<"gre">>],
          [FullEvent EXCEPT !["conn_state"] = <<"OTH">>],
          [FullEvent EXCEPT !["duration"] = <<7200>>],
          [FullEvent EXCEPT !["orig_bytes"] = <<5000000>>]}

\* events a behaviour gives to the detector
MaxFeatureCalls == 2

\* process_packets: features = self.detector.extract_features(packet_data)
ExtractFeatures(packet_data) ==
    /\ Len(computed) < MaxFeatureCalls
    /\ computed' = Append(computed,
            [fn |-> "features", packet_data |-> packet_data,
             result |-> extract_features(packet_data)])
    /\ UNCHANGED <<now, centerVars, bridgeVars, readerVars, suricataVars,
                   kitnetVars, scored>>

(***************************************************************************)
(* SpecFeatures: the detector is given MaxFeatureCalls events.             *)
(***************************************************************************)
InitFeatures == Init

NextFeatures == \E packet_data \in FeatureEvents : ExtractFeatures(packet_data)

SpecFeatures == InitFeatures /\ [][NextFeatures]_vars

(***************************************************************************)
(* Claims about the ingest endpoint.                                       *)
(***************************************************************************)

Answered(k) == k \in DOMAIN log
Received(k) == Answered(k) /\ log[k].status = "received"
Filtered(k) == Answered(k) /\ log[k].status = "filtered_or_throttled"
SameContent(i, j) ==
    log[i].content = log[j].content /\ log[i].content \in Tracked
\* request j was submitted after request i had been answered
Sequential(i, j) == i \in log[j].prior
\* request j was submitted while request i was still being handled
Concurrent(i, j) == i < j /\ i \notin log[j].prior

\* the first two requests are identical alerts, submitted one after the
\* other, both handled within the dedupe window
S3Case ==
    /\ Answered(1) /\ Answered(2)
    /\ SameContent(1, 2)
    /\ Sequential(1, 2)
    /\ log[2].tResp - log[1].tSubmit < DEDUPE_WINDOW_SECONDS

\* C1: of two identical alerts submitted one after the other within the
\* dedupe window, the first is answered received, the second
\* filtered_or_throttled, and the Alert Store has grown by exactly one.
C1_DedupeWithinWindow ==
    S3Case =>
        /\ Received(1)
        /\ Filtered(2)
        /\ log[2].stored = log[1].stored0 + 1

\* the answers alone in that case: first received, second filtered
S3AnswersOnly == S3Case => Received(1) /\ Filtered(2)

\* C2: of two concurrent requests with identical content at most one is
\* admitted (answered received).
C2_AtomicCheckAndSet ==
    \A i \in DOMAIN log, j \in DOMAIN log :
        (Concurrent(i, j) /\ SameContent(i, j))
            => ~(Received(i) /\ Received(j))

\* C5: whenever the endpoint has answered received with id X, a committed
\* row with id X is in the Alert Store (visible to any later session).
C5_ReceivedIsDurable ==
    \A k \in DOMAIN log : Received(k) => log[k].id \in alerts

\* the first two requests are identical alerts and more than the dedupe
\* window elapsed between the answer to the first and the second
S3GapCase ==
    /\ Answered(1) /\ Answered(2)
    /\ SameContent(1, 2)
    /\ log[2].tSubmit - log[1].tResp > DEDUPE_WINDOW_SECONDS

\* C6: two identical alerts more than the dedupe window apart are both
\* answered received and both persisted.
C6_BothAfterWindow ==
    S3GapCase =>
        /\ Received(1) /\ Received(2)
        /\ {log[1].id, log[2].id} \subseteq alerts

\* the answers alone in that case: both received
S3GapAnswersOnly == S3GapCase => Received(1) /\ Received(2)

\* C3: in every one-minute wall-clock bucket the number of requests answered
\* received is at most the ceiling, whatever the mix of distinct, duplicate,
\* sequential and concurrent requests.  A request belongs to the bucket in
\* which its handler read the clock.
C3_RateCeiling ==
    \A b \in DOMAIN admits : admits[b].keyed <= GLOBAL_MINUTE_LIMIT

\* the same count restricted to the requests whose pipeline also ran within
\* the bucket, that is against a counter that cannot have expired
RateCeilingWithinLiveCounter ==
    \A b \in DOMAIN admits : admits[b].within <= GLOBAL_MINUTE_LIMIT

RECURSIVE SumAdmits(_)
SumAdmits(B) ==
    IF B = {} THEN 0
    ELSE LET b == CHOOSE x \in B : TRUE
         IN admits[b].keyed + SumAdmits(B \ {b})

TotalAdmits == SumAdmits(DOMAIN admits)

InHandler == {h \in Handlers : hs[h].pc \in {"check", "decide", "persist", "close"}}
NumAnswered == submitted - Cardinality(InHandler)

\* S4 as stated: of the distinct alerts answered so far, the first
\* GLOBAL_MINUTE_LIMIT are received and all later ones filtered, at whatever
\* wall-clock second the span starts.
C4_AnyStart == TotalAdmits = Min(NumAnswered, GLOBAL_MINUTE_LIMIT)

\* C4: provided the whole span lies within one wall-clock minute, of the
\* distinct alerts answered so far the first GLOBAL_MINUTE_LIMIT are received
\* and all later ones filtered.
C4_WithinOneMinute ==
    Bucket(now) = Bucket(t0) => C4_AnyStart

\* all S4Alerts alerts answered within one minute, the span not starting on
\* the minute, time having passed: 50 received, 10 filtered
C4_Witness ==
    /\ NumAnswered = S4Alerts
    /\ Bucket(now) = Bucket(t0)
    /\ now > t0
    /\ t0 % SECONDS_PER_MINUTE # 0
    /\ TotalAdmits = GLOBAL_MINUTE_LIMIT

ScorerStates == {"scorer", "scoring"}

\* C7: the Background Scorer runs exactly once per received alert id: every
\* run is for the id of a received answer, no id is run twice, no two runs
\* for one id are in progress together, every received answer has its run
\* either scheduled in its task or done, and a filtered answer has none.
C7_ScorerOncePerReceived ==
    /\ \A id \in DOMAIN runCount :
          /\ runCount[id] = 1
          /\ \E k \in DOMAIN log : Received(k) /\ log[k].id = id
    /\ \A h \in Handlers, g \in Handlers :
          (h # g /\ hs[h].pc \in ScorerStates /\ hs[g].pc \in ScorerStates)
              => hs[h].id # hs[g].id
    /\ \A h \in Handlers :
          hs[h].pc \in ScorerStates
              => /\ hs[h].id >= 1
                 /\ (hs[h].pc = "scorer") = (hs[h].id \notin DOMAIN runCount)
    /\ \A k \in DOMAIN log :
          /\ Received(k) =>
                /\ log[k].id >= 1
                /\ \/ log[k].id \in DOMAIN runCount
                   \/ \E h \in Handlers :
                         hs[h].pc = "scorer" /\ hs[h].id = log[k].id
          /\ Filtered(k) => log[k].id \notin DOMAIN runCount

\* one alert received and scored, an identical one filtered, all tasks done
C7_Witness ==
    /\ Received(1) /\ Filtered(2)
    /\ runCount = (log[1].id :> 1)
    /\ \A h \in Handlers : hs[h].pc = "idle"

(***************************************************************************)
(* Claims about the edge.                                                  *)
(***************************************************************************)
\* C8: every escalation payload the edge posts carries an alert_type of the
\* center's AlertType enumeration, so none is rejected for its alert_type.
C8_EscalationTypeAccepted ==
    \A j \in DOMAIN posts :
        /\ posts[j].payload["alert_type"] \in AlertType
        /\ posts[j].status # 422

\* the monitor has finished with line n of notice.log
Handled(n) ==
    \/ n <= last_position
    \/ monitor.pc = "loop" /\ n <= monitor.line
    \/ monitor.pc = "escalate" /\ n < monitor.line

\* line n is the notice of scenario S1
S1Notice(n) ==
    /\ n \in DOMAIN noticeLog
    /\ noticeLog[n].note = <<"Scan", "Port_Scan">>
    /\ noticeLog[n].src_ip = "192.168.1.50"

PostsOf(n) == {j \in DOMAIN posts : posts[j].origin = <<"notice", n>>}
AlertsOf(n) ==
    {j \in DOMAIN bridge_alerts : bridge_alerts[j].origin = <<"notice", n>>}

S1Fields(payload) ==
    /\ payload["source"] = "zeek_notice"
    /\ payload["severity"] = "high"
    /\ payload["alert_type"] = <<"zeek", "scan">>
    /\ <<"IP", "192.168.1.50">> \in RangeOf(payload["indicators"])
    /\ <<"MITRE", "T1046 - Network Service Scanning">>
          \in RangeOf(payload["indicators"])

\* S1 as stated: the one POST of a handled S1 notice has the S1 fields and
\* carries confidence 0.9.
C9_PostWithConfidence ==
    \A n \in DOMAIN noticeLog :
        (Handled(n) /\ S1Notice(n)) =>
            /\ Cardinality(PostsOf(n)) = 1
            /\ \A j \in PostsOf(n) :
                  /\ S1Fields(posts[j].payload)
                  /\ "confidence" \in DOMAIN posts[j].payload
                  /\ posts[j].payload["confidence"] = 90

\* C9: a handled S1 notice has caused exactly one POST, with source
\* zeek_notice, severity high, alert_type zeek_scan and indicators containing
\* IP:192.168.1.50 and MITRE:T1046 - Network Service Scanning; the POST has
\* no confidence field, and the confidence 0.9 is on the one alert the edge
\* recorded for the notice.
C9_PostAndLocalConfidence ==
    \A n \in DOMAIN noticeLog :
        (Handled(n) /\ S1Notice(n)) =>
            /\ Cardinality(PostsOf(n)) = 1
            /\ \A j \in PostsOf(n) :
                  /\ S1Fields(posts[j].payload)
                  /\ "confidence" \notin DOMAIN posts[j].payload
                  /\ "confidence" \notin DOMAIN posts[j].payload["raw_data"]
            /\ Cardinality(AlertsOf(n)) = 1
            /\ \A j \in AlertsOf(n) : bridge_alerts[j].confidence = 90

\* an S1 notice has been handled and its POST made
C9_Witness ==
    \E n \in DOMAIN noticeLog :
        Handled(n) /\ S1Notice(n) /\ PostsOf(n) # {} /\ AlertsOf(n) # {}

\* C10: after a log file the reader has consumed records from is truncated
\* to zero length and one new record is appended, the reader's next poll of
\* the file emits exactly one record, the new one.
C10_RotationTolerance ==
    \A t \in LogTypes :
        rot[t].case = "polled" => rot[t].got = <<rot[t].new>>

(***************************************************************************)
(* Claims about the correlator's cache.                                    *)
(***************************************************************************)
\* C11: the FlowContext map (connection_cache) holds at most cache_max_size
\* entries in every reachable state, the states in the middle of a poll
\* cycle included.
C11_CacheBounded == Len(connection_cache) <= cache_max_size

\* the same bound on the states in which the reader sleeps between two poll
\* cycles, _cleanup_cache having run
CacheBoundedBetweenCycles ==
    reader = 1 => Len(connection_cache) <= cache_max_size

(***************************************************************************)
(* Claims about escalation under an outage.                                *)
(***************************************************************************)
\* the escalations still to run: the scheduled ones and the one the notice
\* monitor is about to make
PendingEscalation(origin) ==
    \/ \E i \in DOMAIN escTasks : escTasks[i].origin = origin
    \/ monitor.pc = "escalate" /\ origin = <<"notice", monitor.line>>

DeliveredToCenter(origin) ==
    \E i \in DOMAIN posts :
        posts[i].origin = origin /\ posts[i].status # NoResponse

\* C12: an escalated alert whose POST to the center failed with a network
\* error (timeout or connection refused) is held in the retry queue for a
\* later attempt, unless it has been delivered since.
C12_FailedPostIsQueued ==
    \A i \in DOMAIN posts :
        posts[i].status = NoResponse =>
            \/ DeliveredToCenter(posts[i].origin)
            \/ PendingEscalation(posts[i].origin)
            \/ \E j \in DOMAIN BridgeRetryQueue :
                  BridgeRetryQueue[j].origin = posts[i].origin

(***************************************************************************)
(* Claims about the retry queue.                                           *)
(***************************************************************************)
\* C13: whatever the sequence of failed sends and retry cycles during an
\* outage of the receiver, the in-memory retry queue holds at most maxlen
\* (100) entries in every reachable state.
C13_RetryQueueBounded == Len(retry_queue) <= maxlen

\* the queue is full and has discarded an entry to take another
C13_Witness ==
    /\ Len(retry_queue) = maxlen
    /\ processor.evicted > 0
    /\ forwarded = << >>

(***************************************************************************)
(* Claims about the detector.                                              *)
(***************************************************************************)
IsPrefix(p, q) == Len(p) <= Len(q) /\ \A i \in DOMAIN p : p[i] = q[i]

\* C14: a fresh detector handles its first max_training_samples calls in
\* training, the first of them fixing the feature map; the model is saved
\* exactly once, when the last of these calls completes; every later call
\* returns min(max_i MSE_i / 5, 1); the phase only moves forward through
\* CALIBRATE, TRAIN, DETECT.
C14_DetectorLifecycle ==
    /\ kitnet.calls >= 1 =>
          detector.feature_groups = _create_feature_groups(NUM_FEATURES)
    /\ kitnet.calls \in 1..max_training_samples => kitnet.handled = "train"
    /\ kitnet.calls < max_training_samples =>
          /\ kitnet.saved_at = << >>
          /\ kitnet.pc = "up" =>
                detector.training_mode /\ model_file.state = "absent"
    /\ kitnet.calls >= max_training_samples =>
          /\ ~detector.training_mode
          /\ kitnet.saved_at = <<max_training_samples>>
          /\ model_file.state = "complete"
          /\ model_file.training_samples = max_training_samples
    /\ kitnet.calls > max_training_samples =>
          /\ kitnet.handled = "detect"
          /\ kitnet.score = Min(MaxSeq(kitnet.errors) \div 5, One)
    /\ IsPrefix(kitnet.phases, <<"CALIBRATE", "TRAIN", "DETECT">>)

\* the call after the last training call has returned a score that is
\* neither clipped nor zero
C14_Witness ==
    /\ kitnet.calls = max_training_samples + 1
    /\ kitnet.handled = "detect"
    /\ kitnet.score > 0 /\ kitnet.score < One
    /\ kitnet.phases = <<"CALIBRATE", "TRAIN", "DETECT">>

\* C15: in DETECT phase every event whose score is at least the threshold
\* (0.95), a score in [threshold, 1) included, has an anomaly alert with
\* source kitnet sent for it.
C15_ThresholdEscalates ==
    (/\ kitnet.pc = "up"
     /\ kitnet.handled = "detect"
     /\ AtLeastThreshold(kitnet.score))
        => \E i \in DOMAIN kitnet_alerts :
              /\ kitnet_alerts[i].call = kitnet.calls
              /\ kitnet_alerts[i].source = "kitnet"

\* the same for the events whose score is clipped to 1
ClippedScoreEscalates ==
    (/\ kitnet.pc = "up"
     /\ kitnet.handled = "detect"
     /\ kitnet.score = One)
        => \E i \in DOMAIN kitnet_alerts :
              /\ kitnet_alerts[i].call = kitnet.calls
              /\ kitnet_alerts[i].source = "kitnet"

\* C16: the model file is replaced atomically: in every state, a crash in
\* the middle of save_model included, model_path holds no file or a complete
\* model, and initialize() after a restart starts training or loads a model.
C16_ModelFileAtomic ==
    /\ model_file.state \in {"absent", "complete"}
    /\ kitnet.pc # "failed"

(***************************************************************************)
(* Claims about the log reader.                                            *)
(***************************************************************************)
NeverRotated(t) == rot[t].case = "none"

\* the ids of the records of a file, in file order
RECURSIVE OkIds(_)
OkIds(file) ==
    IF file = << >> THEN << >>
    ELSE (IF Head(file).kind = "ok" THEN <<Head(file).id>> ELSE << >>)
            \o OkIds(Tail(file))

\* the lines of a file that lie wholly beyond byte p
Beyond(file, p) ==
    LET from == {i \in DOMAIN file : BytesOf(file, i - 1) >= p}
    IN IF from = {} THEN << >>
       ELSE SubSeq(file, CHOOSE i \in from : \A j \in from : i <= j, Len(file))

\* C17: a poll of a file that is only appended to gets past every line that
\* fails to parse or normalize: the offset moves to the end of the file and
\* the queue gains exactly the records beyond the old offset, so that no
\* line read earlier is emitted again and every later record is emitted.
C17_MalformedLineDropped ==
    [][\A i \in DOMAIN ZEEK_LOGS :
          (/\ reader = i
           /\ reader' = i + 1
           /\ NeverRotated(ZEEK_LOGS[i]))
          => LET t == ZEEK_LOGS[i]
                 new == OkIds(Beyond(zeekFiles[t], log_positions[t]))
             IN /\ log_positions'[t] = FileSize(zeekFiles[t])
                /\ IdsOf(emitted') =
                      IdsOf(emitted) \o (IF t = "conn" THEN new ELSE << >>)
      ]_vars

\* C18: the records emitted from a file that is only appended to are the
\* records of the file in file order, none twice, none out of order.
C18_PerFileFifo ==
    NeverRotated("conn") => IsPrefix(IdsOf(emitted), OkIds(zeekFiles["conn"]))

\* the same for a file none of whose lines makes parse_line raise
FifoWithoutRaisingLines ==
    (/\ NeverRotated("conn")
     /\ \A i \in DOMAIN zeekFiles["conn"] :
           zeekFiles["conn"][i].kind # "raises")
        => IsPrefix(IdsOf(emitted), OkIds(zeekFiles["conn"]))

\* the conn records put on the queue whose connection had dns records
\* processed before
JoinedEvents ==
    {i \in DOMAIN emitted : emitted[i].dns_before >= 1}

\* what _enrich_data is to add to conn record e of a uid with n dns records
Joined(e, n) ==
    /\ e.has_dns
    /\ Len(e.dns_queries) = n
    /\ e.total_bytes = e.orig_bytes + e.resp_bytes
    /\ (e.duration = 2 * SECOND => e.duration_category = "medium")

S5Scored(s) == s.alert = S5Alert /\ s.count = 1

\* C20: the alert of the scenario (severity high, type data_exfiltration,
\* 5,000,000 bytes transferred, no failed authentication, port 443,
\* external, 150 connections, one indicator, empty pattern sets, no other
\* alert of the type in 24 hours) is scored base 0.9, context 0.7,
\* historical 0.2, indicator 0.0 and final 0.54
C20_DeterministicScore ==
    \A i \in DOMAIN scored :
        S5Scored(scored[i]) =>
            /\ scored[i].base = 90
            /\ scored[i].context = 70
            /\ scored[i].historical = 20
            /\ scored[i].indicator = 0
            /\ scored[i].final = 540

\* the components that do not depend on the history query
S5BaseContextIndicator ==
    \A i \in DOMAIN scored :
        S5Scored(scored[i]) =>
            /\ scored[i].base = 90
            /\ scored[i].context = 70
            /\ scored[i].indicator = 0

\* with a history query that returns, the scenario is scored 0.52; with one
\* that raises, historical is 0.3 and the final score 0.54
S5ByQueryOutcome ==
    \A i \in DOMAIN scored :
        S5Scored(scored[i]) =>
            IF scored[i].query = "returns"
            THEN scored[i].historical = 20 /\ scored[i].final = 520
            ELSE scored[i].historical = 30 /\ scored[i].final = 540

(***************************************************************************)
(* Claims about the Background Scorer.                                     *)
(***************************************************************************)
\* C21: when no reasoning service is configured (AI disabled or no API
\* key), the score the Background Scorer stores for an alert is the
\* deterministic score of that alert
C21_DeterministicPathLive ==
    \A i \in DOMAIN scored :
        (~scored[i].configured /\ scored[i].deterministic # << >>) =>
            scored[i].threat_score = scored[i].deterministic[1]

\* without a configured reasoning service the score stored is 0.4
UnconfiguredStoresDefault ==
    \A i \in DOMAIN scored :
        ~scored[i].configured => scored[i].threat_score = DEFAULT_STORED

\* C22: every value calculate_threat_score returns and every threat_score
\* the Background Scorer stores lies in [0, 1]: on the augmented path, on
\* the deterministic path and on every failure default
C22_ThreatScoreBounds ==
    \A i \in DOMAIN scored :
        /\ scored[i].returned \in 0..One
        /\ scored[i].threat_score \in 0..One

\* a reply whose product exceeds 1 was clamped to 1 and stored
C22_Witness ==
    \E i \in DOMAIN scored :
        /\ scored[i].path = "augmented"
        /\ scored[i].threat_score = One

\* C23: the ingest endpoint answers 5xx only when the persistent store
\* fails; it does not answer 5xx because the key-value store is unreachable
C23_ErrorOnlyOnPersistentStore ==
    \A k \in DOMAIN log :
        log[k].status = "http_500" => log[k].failed = "persistent_store"

(***************************************************************************)
(* Claims about the correlator of the center.                              *)
(***************************************************************************)
TemporalCalls == {i \in DOMAIN computed : computed[i].fn = "temporal"}

\* B is reported as correlated with A with score s
Reported(c, a, b, s) ==
    [related_alert_id |-> b, correlation_score |-> s] \in c.result[a]

RiskCalls == {i \in DOMAIN computed : computed[i].fn = "risk"}

\* the fraction lies in [0, 1]
InUnitInterval(q) == q.den > 0 /\ q.num >= 0 /\ q.num <= One * q.den

\* C25: for any list of ThreatGroups, with severities and confidences in
\* [0, 1], _calculate_overall_risk returns a value in [0, 1], and 0 for the
\* empty list
C25_RiskBounds ==
    \A i \in RiskCalls :
        /\ InUnitInterval(computed[i].result)
        /\ computed[i].threats = << >> => computed[i].result.num = 0

\* three critical threats of confidence 1: 3.0 / 1.3 is returned as 1.0
C25_Witness ==
    \E i \in RiskCalls :
        /\ Len(computed[i].threats) = MaxThreats
        /\ TotalRisk(computed[i].threats) = MaxThreats * One
        /\ computed[i].result = [num |-> One, den |-> 1]

(***************************************************************************)
(* Claims about the feature vector.                                        *)
(***************************************************************************)
FeatureCalls == {i \in DOMAIN computed : computed[i].fn = "features"}

\* C26: extract_features returns a vector of the same length D for every
\* event, whatever keys the event has or lacks: the length for every event
\* after the first equals the length of the first
C26_DimensionStable ==
    \A i \in FeatureCalls :
        /\ Len(computed[i].result) = NUM_FEATURES
        /\ Len(computed[i].result) = Len(computed[1].result)

\* an event with every key, then one with none
C26_Witness ==
    /\ FeatureCalls = {1, 2}
    /\ computed[1].packet_data = FullEvent
    /\ computed[2].packet_data = EmptyEvent

(***************************************************************************)
(* Claims about the Suricata endpoint of the bridge.                       *)
(***************************************************************************)
\* the alerts the bridge built from Suricata events; origin keeps the
\* severity the engine gave
FromSuricata == {i \in DOMAIN bridge_alerts :
                    bridge_alerts[i].origin[1] = "suricata"}

\* C27: the Suricata endpoint maps engine severity 1 to critical, 2 to
\* high, 3 to medium and every other value (0, 4, 5 and above) to low
C27_SuricataSeverityMapping ==
    \A i \in FromSuricata :
        bridge_alerts[i].severity =
            CASE bridge_alerts[i].origin[3] = 1 -> "critical"
              [] bridge_alerts[i].origin[3] = 2 -> "high"
              [] bridge_alerts[i].origin[3] = 3 -> "medium"
              [] OTHER -> "low"

\* the values 1 to 4 are mapped as stated
SeverityMappedFromOneToFour ==
    \A i \in FromSuricata :
        bridge_alerts[i].origin[3] \in 1..4 =>
            bridge_alerts[i].severity =
                <<"critical", "high", "medium", "low">>[bridge_alerts[i].origin[3]]
(***************************************************************************)
(* Claims about notice records.                                            *)
(***************************************************************************)
NoticeBefore(i, j) ==
    /\ i < j
    /\ emitted[i].log_type = "notice"
    /\ emitted[j].log_type = "conn"
    /\ emitted[i].uid = emitted[j].uid

\* C28: a conn record processed after a notice record of the same UID
\* yields an event with has_notices = true and that notice in its notices
\* list.
C28_NoticeJoinsContext ==
    \A i, j \in DOMAIN emitted :
        NoticeBefore(i, j) =>
            /\ emitted[j].has_notices
            /\ \E k \in DOMAIN emitted[j].notices :
                    emitted[j].notices[k] = emitted[i].id

\* what the reader does with a notice record: it is put on the queue as a
\* high-priority item, and no context ever holds a notice
NoticeEmittedOnly ==
    /\ \A i \in DOMAIN emitted :
          emitted[i].log_type = "notice" =>
              /\ emitted[i]._priority = "high"
              /\ emitted[i]._source = "zeek_notice"
    /\ \A i \in DOMAIN emitted :
          emitted[i].log_type = "conn" => ~emitted[i].has_notices
    /\ \A i \in DOMAIN connection_cache :
          connection_cache[i].notices = << >>

(***************************************************************************)
(* Claims about the retry cycle of the log processor.                      *)
(***************************************************************************)
\* the step that ends a retry cycle whose first resend, of the head
\* alert, failed
HeadResendFailed ==
    /\ processor.pc = "putback"
    /\ processor.retried = 0
    /\ processor'.pc = "tail"

NoDuplicates(q) == \A i, j \in DOMAIN q : q[i] = q[j] => i = j

\* C29: after a retry cycle in which resending the head alert fails, the
\* retry queue holds the same alerts in the same order as before the cycle,
\* the failing alert at the head, each alert exactly once.
C29_RetryPutsBackAtHead ==
    [][HeadResendFailed =>
          /\ retry_queue' = processor.before
          /\ Head(retry_queue') = processor.hand
          /\ NoDuplicates(retry_queue')]_vars

\* what the cycle leaves: the failing alert at the head, and behind it the
\* rest of the queue, which also ends with the failing alert when
\* process_alert queued it again and the queue had room for both
RetryLeavesHeadFirst ==
    [][HeadResendFailed =>
          /\ Head(retry_queue') = processor.hand
          /\ \/ retry_queue' = processor.before
             \/ retry_queue' = Append(processor.before, processor.hand)]_vars

\* an entry is discarded in this step
Discards == processor'.evicted > processor.evicted

\* C30: whenever an alert is added to the retry queue while it holds maxlen
\* (100) entries, the entry removed is the oldest one, at the head; every
\* newer entry stays, whether a failed first send or a failed retry adds
\* the alert.
C30_OverflowDropsOldest ==
    [][Discards =>
          \/ retry_queue' = Append(Tail(retry_queue), retry_queue'[maxlen])
          \/ retry_queue' = <<retry_queue'[1]>> \o Tail(retry_queue)]_vars

\* a failed first send into a full queue discards the head; the put-back
\* of a failed retry into a full queue discards the entry at the tail
DiscardsByOperation ==
    [][Discards =>
          IF processor.pc = "putback"
          THEN retry_queue' = <<processor.hand>>
                                  \o SubSeq(retry_queue, 1, maxlen - 1)
          ELSE retry_queue' = Append(Tail(retry_queue), eveCount')]_vars

(***************************************************************************)
(* Claims about the dedupe key.                                            *)
(***************************************************************************)
\* a request that passed both checks of check_abuse_safeguards
Admitted(r) == ~r.dup /\ ~OverLimit(r.count)

\* a request rejected by the counter alone
Throttled(r) ==
    r.status = "filtered_or_throttled" /\ ~r.dup /\ OverLimit(r.count)

\* a request with content c has passed both checks: it is answered, or it
\* is between setex and its answer
MarkedBy(c) ==
    \/ \E k \in DOMAIN log : log[k].content = c /\ Admitted(log[k])
    \/ \E h \in Handlers :
          hs[h].pc \in {"persist", "close"} /\ hs[h].content = c

\* C31: a request rejected because the counter exceeds the ceiling does not
\* set its dedupe key: every key, and every duplicate found, is due to a
\* request that passed both checks, and a request that is no duplicate and
\* finds the counter at or below the ceiling is answered received.
C31_ThrottledNotMarked ==
    /\ \A c \in DOMAIN dedupe : MarkedBy(c)
    /\ \A k \in DOMAIN log : log[k].dup => MarkedBy(log[k].content)
    /\ \A k \in DOMAIN log :
          Admitted(log[k]) => log[k].status = "received"

\* an alert is throttled and the identical alert, submitted in the next
\* minute bucket, is answered received
C31_Witness ==
    \E k1, k2 \in DOMAIN log :
        /\ Throttled(log[k1])
        /\ log[k2].content = log[k1].content
        /\ k1 \in log[k2].prior
        /\ Bucket(log[k2].tSubmit) = Bucket(log[k1].tSubmit) + 1
        /\ log[k2].status = "received"

(***************************************************************************)
(* Claims about the feature map of the detector.                           *)
(***************************************************************************)
\* a step of the running service: a call of detect_anomaly, or a part of it
DetectorRuns == kitnet.pc \in {"up", "saving"} /\ kitnet'.pc # "down"

\* C32: feature_groups and the number of autoencoders are assigned on the
\* first training event and no later call of detect_anomaly changes them;
\* in DETECT the training-sample counter and the phase do not change.
C32_FeatureMapFixed ==
    [][DetectorRuns =>
          /\ Phase(detector) = "CALIBRATE" /\ detector' # detector =>
                /\ detector'.feature_groups # << >>
                /\ detector'.autoencoders = Len(detector'.feature_groups)
          /\ Phase(detector) # "CALIBRATE" =>
                /\ detector'.feature_groups = detector.feature_groups
                /\ detector'.autoencoders = detector.autoencoders
          /\ Phase(detector) = "DETECT" =>
                /\ detector'.training_samples = detector.training_samples
                /\ Phase(detector') = "DETECT"]_vars

\* detect_anomaly was called in DETECT, on a detector trained in this life
\* of the service, and the feature map is the one of the first sample
C32_Witness ==
    /\ kitnet.handled = "detect"
    /\ kitnet.detects = MaxDetectCalls
    /\ kitnet.saved_at # << >>
    /\ detector.feature_groups = _create_feature_groups(NUM_FEATURES)
    /\ detector.training_samples = max_training_samples

(***************************************************************************)
(* Claims about the feature groups.                                        *)
(***************************************************************************)
GroupCalls == {i \in DOMAIN computed : computed[i].fn = "groups"}

\* G = max(3, floor(D / 3)) and the stride floor(G / 2)
GroupSizeOf(d) == IF d \div 3 > 3 THEN d \div 3 ELSE 3
StrideOf(d) == GroupSizeOf(d) \div 2

\* consecutive indices of the features 0..d-1, at most G of them, the first
\* a multiple of the stride
WellFormedGroup(g, d) ==
    /\ Len(g) >= 1
    /\ Len(g) <= GroupSizeOf(d)
    /\ g[1] % StrideOf(d) = 0
    /\ \A k \in DOMAIN g : g[k] = g[1] + k - 1 /\ g[k] \in 0..(d - 1)

WellFormedGroups(i) ==
    \A n \in DOMAIN computed[i].feature_groups :
        WellFormedGroup(computed[i].feature_groups[n],
                        computed[i].num_features)

AtLeastTwo(i) ==
    \A n \in DOMAIN computed[i].feature_groups :
        Len(computed[i].feature_groups[n]) >= 2

\* C33, as stated: for every feature count D >= 1 the groups are runs of
\* consecutive indices of size at most G, starting at multiples of the
\* stride, and every group has size at least 2.
C33_GroupsAsStated ==
    \A i \in GroupCalls : WellFormedGroups(i) /\ AtLeastTwo(i)

\* C33: for every feature count D >= 1 the groups are runs of consecutive
\* indices of size at most G, starting at multiples of the stride; every
\* group has size at least 2 when D >= 2, and for D = 1 the only group is
\* the single feature.
C33_FeatureGrouping ==
    \A i \in GroupCalls :
        /\ WellFormedGroups(i)
        /\ computed[i].feature_groups # << >>
        /\ computed[i].num_features >= 2 => AtLeastTwo(i)
        /\ computed[i].num_features = 1 =>
                computed[i].feature_groups = << <<0>> >>

\* seventeen features: groups of five at stride two, the last one cut to
\* the three features that are left
C33_Witness ==
    \E i \in GroupCalls :
        /\ computed[i].num_features = NUM_FEATURES
        /\ computed[i].feature_groups[1] = <<0, 1, 2, 3, 4>>
        /\ computed[i].feature_groups[Len(computed[i].feature_groups)]
              = <<14, 15, 16>>

(***************************************************************************)
(* Claims about the escalation of notices.                                 *)
(***************************************************************************)
\* the callback has returned for the n-th notice line
NoticeHandled(n) ==
    /\ n <= monitor.line
    /\ ~(monitor.pc = "escalate" /\ monitor.line = n)

NoticeEscalated(n) ==
    \E i \in DOMAIN posts : posts[i].origin = <<"notice", n>>

NoticeRecordedAs(n, severity) ==
    \E i \in DOMAIN bridge_alerts :
        /\ bridge_alerts[i].origin = <<"notice", n>>
        /\ bridge_alerts[i].severity = severity

HighNotes == {note \in EdgeNotes : InNotices(note, critical_notices)
                                   \/ InNotices(note, high_notices)}
OutsideTables == {note \in EdgeNotes : ~InNotices(note, critical_notices)
                                       /\ ~InNotices(note, high_notices)
                                       /\ ~InNotices(note, medium_notices)}

CountedScores == {i \in DOMAIN scored : scored[i].query = "returns"}

\* C35: given the count c of same-type alerts in the last 24 hours, the
\* historical component is 0.8 when c >= 10, 0.6 when 5 <= c < 10, 0.4 when
\* 2 <= c < 5, and 0.2 otherwise.
C35_HistoricalThresholds ==
    \A i \in CountedScores :
        scored[i].historical =
            IF scored[i].count >= 10 THEN 80
            ELSE IF scored[i].count >= 5 THEN 60
            ELSE IF scored[i].count >= 2 THEN 40
            ELSE 20

\* the thresholds of the code are exclusive: 0.8 above 10, 0.6 above 5,
\* 0.4 above 2; and 0.3 when the query raises
HistoricalAboveThresholds ==
    \A i \in DOMAIN scored :
        scored[i].historical =
            IF scored[i].query = "raises" THEN 30
            ELSE IF scored[i].count >= 11 THEN 80
            ELSE IF scored[i].count >= 6 THEN 60
            ELSE IF scored[i].count >= 3 THEN 40
            ELSE 20

(***************************************************************************)
(* Claims about the threshold recommendation.                              *)
(***************************************************************************)
ThresholdCalls == {i \in DOMAIN computed : computed[i].fn = "threshold"}

\* alerts per hour below 1 / above 20; high and critical alerts more than
\* half / less than a tenth of the list
BelowOnePerHour(c) == Len(c.alerts) * 3600 < c.time_window
AboveTwentyPerHour(c) == Len(c.alerts) * 3600 > 20 * c.time_window
HighOrCritical(c) ==
    Cardinality({k \in DOMAIN c.alerts : c.alerts[k] = "high"})
        + Cardinality({k \in DOMAIN c.alerts : c.alerts[k] = "critical"})
MostlyHigh(c) == 2 * HighOrCritical(c) > Len(c.alerts)
HardlyHigh(c) ==
    IF c.alerts = << >> THEN TRUE ELSE 10 * HighOrCritical(c) < Len(c.alerts)

\* C36: for any alert list and time window > 0 the deterministic
\* recommendation is LOWER to 0.93 when alerts/hour < 1 and the high and
\* critical ratio > 0.5, RAISE to 0.97 when alerts/hour > 20 and the ratio
\* < 0.1, MAINTAIN at 0.95 in every other case; the value recommended lies
\* in [0.90, 0.98].
C36_ThresholdRecommendation ==
    \A i \in ThresholdCalls :
        LET c == computed[i]
            r == computed[i].result
        IN /\ c.time_window > 0
           /\ IF BelowOnePerHour(c) /\ MostlyHigh(c)
              THEN r.action = "LOWER" /\ r.recommended_value = 930
              ELSE IF AboveTwentyPerHour(c) /\ HardlyHigh(c)
              THEN r.action = "RAISE" /\ r.recommended_value = 970
              ELSE r.action = "MAINTAIN" /\ r.recommended_value = 950
           /\ r.recommended_value >= 900
           /\ r.recommended_value <= 980

\* one critical alert in two hours: LOWER to 0.93
C36_Witness ==
    \E i \in ThresholdCalls :
        /\ computed[i].alerts = <<"critical">>
        /\ computed[i].time_window = 7200
        /\ computed[i].result.action = "LOWER"
        /\ computed[i].result.recommended_value = 930

\* twenty low alerts and one medium in an hour: RAISE to 0.97
ThresholdRaised ==
    \E i \in ThresholdCalls :
        /\ Len(computed[i].alerts) = 21
        /\ computed[i].time_window = 3600
        /\ computed[i].result.action = "RAISE"

(***************************************************************************)
(* Claims about the dedupe key of an alert that was not stored.            *)
(***************************************************************************)
\* the request was admitted and its persisting failed
PersistFailed(r) ==
    r.status = "http_500" /\ r.failed = "persistent_store"

\* C37: when persisting an admitted alert fails, the dedupe key of that
\* alert is not left set: an identical alert submitted afterwards is not
\* answered filtered_or_throttled as the duplicate of the alert that was
\* never stored.
C37_DedupeOnlyForStored ==
    \A k1, k2 \in DOMAIN log :
        (/\ PersistFailed(log[k1])
         /\ k1 \in log[k2].prior
         /\ log[k2].content = log[k1].content)
        => ~(log[k2].status = "filtered_or_throttled" /\ log[k2].dup)

\* the key set before the failure stays for the dedupe window
FailedPersistLeavesKey ==
    \A k \in DOMAIN log :
        (PersistFailed(log[k])
         /\ now < log[k].tSubmit + DEDUPE_WINDOW_SECONDS)
        => log[k].content \in DOMAIN dedupe

(***************************************************************************)
(* Claims about the order of the log files.                                *)
(***************************************************************************)
\* the dns records of the connection of event e that Zeek wrote before the
\* conn record of e (the lines are numbered in the order of writing)
DnsWrittenBefore(e) ==
    {i \in DOMAIN zeekFiles["dns"] :
        /\ zeekFiles["dns"][i].uid = e.uid
        /\ zeekFiles["dns"][i].id < e.id}

\* C38: if a dns record with UID u was appended to dns.log before the conn
\* record with UID u was appended to conn.log, the event emitted for the
\* conn record contains the dns record, also when both lines become visible
\* to the reader in the same poll cycle.
C38_AuxiliaryBeforeConn ==
    \A j \in DOMAIN emitted :
        emitted[j].log_type = "conn" =>
            \A i \in DnsWrittenBefore(emitted[j]) :
                \E k \in DOMAIN emitted[j].dns_queries :
                    emitted[j].dns_queries[k] = zeekFiles["dns"][i].id

\* the event of a conn record holds the dns records of its connection that
\* the reader had processed before it, and no other
AuxiliaryPolledBeforeConn ==
    \A j \in DOMAIN emitted :
        emitted[j].log_type = "conn" =>
            /\ Len(emitted[j].dns_queries) = emitted[j].dns_before
            /\ emitted[j].has_dns <=> emitted[j].dns_before > 0

(***************************************************************************)
(* Claims about the items the detector is given.                           *)
(***************************************************************************)
\* the items detect_anomaly was called for
GivenToDetector == 1..kitnet.calls

\* C39: every item that advances the training-sample counter or is scored
\* by detect_anomaly is an event derived from a conn record; a notice
\* record put on the packet queue is never trained on or scored.
C39_OnlyConnReachesDetector ==
    \A i \in GivenToDetector : emitted[i].log_type = "conn"

\* process_packets gives every item of the queue to the detector, in the
\* order of the queue: in training each one is counted as a sample
EveryItemReachesDetector ==
    /\ kitnet.calls <= Len(emitted)
    /\ kitnet.pc = "up" /\ detector.training_mode =>
          detector.training_samples = kitnet.calls

(***************************************************************************)
(* Claims about the ids of the alerts of the edge.                         *)
(***************************************************************************)
\* C40: no two alerts of bridge_service.alerts share an id, for any
\* sequence of add_alert calls, several within the same second included.
C40_EdgeAlertIdsUnique ==
    \A i, j \in DOMAIN bridge_alerts :
        bridge_alerts[i].id = bridge_alerts[j].id => i = j

\* the id of an alert is the second in which add_alert ran, so the alerts
\* added within one second share it
EdgeAlertIdIsSecond ==
    \A i, j \in DOMAIN bridge_alerts :
        /\ bridge_alerts[i].id = <<"alrt", bridge_alerts[i].timestamp>>
        /\ bridge_alerts[i].timestamp = bridge_alerts[j].timestamp =>
              bridge_alerts[i].id = bridge_alerts[j].id

====
